---- MODULE Spec2Model ----
(***************************************************************************)
(* Model of the SeoulGood delivery storefront: the spreadsheet-to-menu     *)
(* ingestion pipeline of services/menuService (fetchMenuFromSheet).        *)
(* Spec is one run of fetchMenuFromSheet, row by row; SpecHeader is the     *)
(* header scan of one sheet; SpecGetValue is one call of getValue;         *)
(* SpecOptions, SpecSettings and SpecSpicy are runs of fetchMenuFromSheet  *)
(* over the option rows, the settings rows and the item rows.              *)
(*                                                                         *)
(* A JavaScript string is a sequence of one-code-unit tokens: an ASCII     *)
(* character is the one-character string, a Thai character is the token    *)
(* "uXXXX" of its code point.  A spreadsheet cell is a record tagged       *)
(* "s" (string), "n" (number) or "u" (undefined / blank).                  *)
(***************************************************************************)
EXTENDS Integers, Sequences, FiniteSets

VARIABLES
    pc,               \* fetchMenuFromSheet: "fetch", "check", "decode", "fold", "catch", "done"
    response,         \* the fetch response: its content-type header and its ok flag
    thrown,           \* the error thrown inside the try block, "none" if none
    groupedItems,     \* the item accumulator, in insertion order
    config,           \* the config accumulator
    lastRow,          \* the row the callback ran on last
    nRows,            \* rows folded so far
    sheetNo,          \* the sheet being iterated, 0 before the workbook is read
    result,           \* the value the promise resolves to
    settled,          \* the promise: "pending", "resolved", "rejected"
    sheetRows,        \* header detection: the sheet as an array of arrays (header: 1)
    trueHeader,       \* header detection: index of the row the author meant as header, -1 if none
    headerRowIndex,   \* header detection: the index the scan settles on
    hdrPc,            \* header detection: "scan" before the loop, "done" after it, "skipped" for
                      \* an empty sheet, "idle" when no sheet is scanned
    rowLog,           \* the rows the callback ran on so far, in order (kept by the logged runs)
    gvRow,            \* getValue: the row object, its columns in order
    gvField,          \* getValue: the field looked up (one of the call sites)
    gvResult,         \* getValue: the value returned
    gvPc,             \* getValue: "call" before the call, "returned" after it, "idle" when not run
    imgUrl,           \* processImageUrl: the argument
    imgResult,        \* processImageUrl: the value returned
    imgPc,            \* processImageUrl: "call" before the call, "returned" after it, "idle" when not run
    storage,          \* App: localStorage, the items under app_logo, app_qr and app_line_id
    localLogo,        \* App state: getSafeStorage('app_logo') at the first render
    localQr,          \* App state: getSafeStorage('app_qr')
    localLineId,      \* App state: getSafeStorage('app_line_id')
    sheetConfig,      \* App state: {} until the menu is loaded, then data.config
    loading,          \* App state
    menu,             \* App state: the loaded items
    cart,             \* App state: the cart lines; ref is the menu item (its index) the line
                      \* object is, 0 for an object of its own
    isCartOpen,       \* App state
    selectedItem,     \* App state: the menu item (its index) the item modal shows, 0 for null
    tempQuantity,     \* App state
    tempNote,         \* App state
    tempSelectedOptions, \* App state: the (group, choice) pairs in key order
    customerName,     \* App state
    customerPhone,    \* App state
    slipPreview,      \* App state: "" for null
    showConfirmModal, \* App state
    isSavingOrder,    \* App state
    currentOrderId,   \* App state
    orders,           \* the calls of saveOrderToSheet so far: the payload, how the call
                      \* settled and the order id of the redirect that followed
    closeTimers,      \* pending setTimeout(() => setShowConfirmModal(false), 2000)
    lastAlert         \* the message of the last alert(), "none" before the first

hdrVars == <<sheetRows, trueHeader, headerRowIndex, hdrPc>>

foldVars == <<pc, response, thrown, groupedItems, config, lastRow, nRows, sheetNo, result, settled>>

gvVars == <<gvRow, gvField, gvResult, gvPc>>

imgVars == <<imgUrl, imgResult, imgPc>>

settingsVars == <<storage, localLogo, localQr, localLineId, sheetConfig>>
loadVars == <<loading, menu>>
modalVars == <<selectedItem, tempQuantity, tempNote, tempSelectedOptions>>
cartVars == <<cart, isCartOpen>>
formVars == <<customerName, customerPhone, slipPreview>>
orderVars == <<showConfirmModal, isSavingOrder, currentOrderId, orders, closeTimers, lastAlert>>
appVars == <<settingsVars, loadVars, modalVars, cartVars, formVars, orderVars>>

\* what the fold, the header scan and a getValue call each leave alone
nonFoldVars == <<hdrVars, gvVars, imgVars, appVars>>
nonHdrVars == <<foldVars, rowLog, gvVars, imgVars, appVars>>
nonGvVars == <<foldVars, rowLog, hdrVars, imgVars, appVars>>
nonImgVars == <<foldVars, rowLog, hdrVars, gvVars, appVars>>
nonAppVars == <<foldVars, rowLog, hdrVars, gvVars, imgVars>>

vars == <<pc, response, thrown, groupedItems, config, lastRow, nRows, sheetNo, result, settled,
          sheetRows, trueHeader, headerRowIndex, hdrPc, rowLog, gvRow, gvField, gvResult, gvPc,
          imgVars, appVars>>

-----------------------------------------------------------------------------
(* JavaScript strings *)

MinOf(S) == CHOOSE x \in S : \A y \in S : x <= y
MaxOf(S) == CHOOSE x \in S : \A y \in S : x >= y

UpperChars == <<"A","B","C","D","E","F","G","H","I","J","K","L","M",
                "N","O","P","Q","R","S","T","U","V","W","X","Y","Z">>
LowerChars == <<"a","b","c","d","e","f","g","h","i","j","k","l","m",
                "n","o","p","q","r","s","t","u","v","w","x","y","z">>

\* String.prototype.toLowerCase, one code unit
LowerChar(c) ==
    IF \E i \in 1..Len(UpperChars) : UpperChars[i] = c
    THEN LowerChars[CHOOSE i \in 1..Len(UpperChars) : UpperChars[i] = c]
    ELSE c

\* String.prototype.toLowerCase
ToLowerCase(s) == [i \in 1..Len(s) |-> LowerChar(s[i])]

\* sub occurs in s at position i (1-based)
StartsAt(s, sub, i) ==
    /\ i >= 1
    /\ i + Len(sub) - 1 <= Len(s)
    /\ \A j \in 1..Len(sub) : s[i + j - 1] = sub[j]

\* String.prototype.includes
Includes(s, sub) == \E i \in 1..(Len(s) - Len(sub) + 1) : StartsAt(s, sub, i)

\* white space and line terminators, as String.prototype.trim and \s see them
IsSpace(c) == c \in {" ", "\t", "\n", "\r"}

\* String.prototype.trim
Trim(s) ==
    LET keep == {i \in 1..Len(s) : ~IsSpace(s[i])}
    IN  IF keep = {} THEN <<>> ELSE SubSeq(s, MinOf(keep), MaxOf(keep))

RECURSIVE Concat(_)
\* the concatenation of a sequence of strings
Concat(ss) == IF ss = <<>> THEN <<>> ELSE Head(ss) \o Concat(Tail(ss))

DigitChars == <<"0","1","2","3","4","5","6","7","8","9">>

RECURSIVE NumToString(_)
\* String(n) for a non-negative integer n
NumToString(n) ==
    IF n < 10 THEN <<DigitChars[n + 1]>>
    ELSE NumToString(n \div 10) \o <<DigitChars[(n % 10) + 1]>>

-----------------------------------------------------------------------------
(* Cells *)

Str(s) == [t |-> "s", s |-> s, n |-> 0]
Num(n) == [t |-> "n", s |-> <<>>, n |-> n]
Undefined == [t |-> "u", s |-> <<>>, n |-> 0]

\* JavaScript truthiness of a cell value
Truthy(c) == (c.t = "s" /\ c.s # <<>>) \/ (c.t = "n" /\ c.n # 0)

\* String(value)
StringOf(c) ==
    IF c.t = "s" THEN c.s
    ELSE IF c.t = "n" THEN NumToString(c.n)
    ELSE <<"u","n","d","e","f","i","n","e","d">>

-----------------------------------------------------------------------------
(* More of JavaScript: split, replace, Number *)

RECURSIVE SplitFrom(_, _, _)
\* String.prototype.split on a one-character separator: cur is the piece being read
SplitFrom(s, sep, cur) ==
    IF s = <<>> THEN <<cur>>
    ELSE IF Head(s) = sep THEN <<cur>> \o SplitFrom(Tail(s), sep, <<>>)
    ELSE SplitFrom(Tail(s), sep, Append(cur, Head(s)))

Split(s, sep) == SplitFrom(s, sep, <<>>)

\* s.replace(/\s/g, '')
RemoveSpaces(s) == SelectSeq(s, LAMBDA c : ~IsSpace(c))

IsDigit(c) == \E i \in 1..Len(DigitChars) : DigitChars[i] = c
DigitValue(c) == (CHOOSE i \in 1..Len(DigitChars) : DigitChars[i] = c) - 1

RECURSIVE DigitsToNum(_, _)
DigitsToNum(s, acc) ==
    IF s = <<>> THEN acc ELSE DigitsToNum(Tail(s), 10 * acc + DigitValue(Head(s)))

\* Number(value) || 0.  Number of a string trims it, reads "" as 0 and an unsigned
\* decimal integer as its value; every other string of the model's vocabulary is
\* not numeric (NaN), and NaN || 0 is 0.  Number(undefined) is NaN.
NumberOrZero(c) ==
    IF c.t = "n" THEN c.n
    ELSE IF c.t = "u" THEN 0
    ELSE LET tr == Trim(c.s)
         IN  IF tr # <<>> /\ \A i \in 1..Len(tr) : IsDigit(tr[i])
             THEN DigitsToNum(tr, 0)
             ELSE 0

\* a || b on cell values
OrElse(a, b) == IF Truthy(a) THEN a ELSE b

-----------------------------------------------------------------------------
(* processImageUrl and extractLineId *)

\* a character the regular expression's . does not match
IsLineTerminator(c) == c \in {"\n", "\r", "u2028", "u2029"}

\* positions q >= from where character ch stands, with no line terminator in from..q-1
LazyStops(s, from, ch) ==
    {q \in from..Len(s) : s[q] = ch /\ \A j \in from..(q - 1) : ~IsLineTerminator(s[j])}

\* /\/d\/(.*?)\// tried at position p: the set holding the captured group, or {}
DrivePathMatch(s, p) ==
    IF StartsAt(s, <<"/","d","/">>, p) /\ LazyStops(s, p + 3, "/") # {}
    THEN {SubSeq(s, p + 3, MinOf(LazyStops(s, p + 3, "/")) - 1)}
    ELSE {}

\* /id=(.*?)(&|$)/ tried at position p: the set holding the captured group, or {}
DriveQueryMatch(s, p) ==
    IF ~StartsAt(s, <<"i","d","=">>, p) THEN {}
    ELSE IF LazyStops(s, p + 3, "&") # {}
         THEN {SubSeq(s, p + 3, MinOf(LazyStops(s, p + 3, "&")) - 1)}
    ELSE IF \A j \in (p + 3)..Len(s) : ~IsLineTerminator(s[j])
         THEN {SubSeq(s, p + 3, Len(s))}
    ELSE {}

DriveViewPrefix == <<"h","t","t","p","s",":","/","/","d","r","i","v","e",".","g","o","o","g","l","e",".","c","o","m","/","u","c","?","e","x","p","o","r","t","=","v","i","e","w","&","i","d","=">>

\* cleanUrl.match(/\/d\/(.*?)\/|id=(.*?)(&|$)/) and the rewrite: the leftmost position
\* where an alternative matches wins, the path alternative first;
\* id = idMatch[1] || idMatch[2]
DriveRewrite(cleanUrl) ==
    LET hits == {p \in 1..Len(cleanUrl) :
                    DrivePathMatch(cleanUrl, p) # {} \/ DriveQueryMatch(cleanUrl, p) # {}}
    IN  IF hits = {} THEN cleanUrl
        ELSE LET p == MinOf(hits)
                 g1 == DrivePathMatch(cleanUrl, p)
                 g2 == DriveQueryMatch(cleanUrl, p)
                 id == IF g1 # {}
                       THEN (IF (CHOOSE g \in g1 : TRUE) # <<>>
                             THEN CHOOSE g \in g1 : TRUE
                             ELSE <<"u","n","d","e","f","i","n","e","d">>)
                       ELSE CHOOSE g \in g2 : TRUE
             IN  DriveViewPrefix \o id

processImageUrl(url) ==
    IF url = <<>> THEN <<>>
    ELSE LET cleanUrl == Trim(url)
         IN  IF Includes(cleanUrl, <<"d","r","i","v","e",".","g","o","o","g","l","e",".","c","o","m">>)
             THEN DriveRewrite(cleanUrl)
             ELSE cleanUrl

\* extractLineId that keeps the query string of the last path segment
extractLineIdKeepQuery(val) ==
    IF ~Truthy(val) THEN <<>>
    ELSE LET str == Trim(StringOf(val))
         IN  IF Includes(str, <<"l","i","n","e",".","m","e">>)
             THEN LET parts == Split(str, "/")
                  IN  parts[Len(parts)]
             ELSE str

\* extractLineId(val), val a cell value
extractLineId(val) ==
    IF ~Truthy(val) THEN <<>>
    ELSE LET str == Trim(StringOf(val))
         IN  IF Includes(str, <<"l","i","n","e",".","m","e">>)
             THEN LET parts == Split(str, "/")
                  IN  Split(parts[Len(parts)], "?")[1]
             ELSE str

-----------------------------------------------------------------------------
(* Column resolution: getValue.  A parsed row is the sequence of its          *)
(* (header, value) pairs in column order; sheet_to_json leaves a blank cell    *)
(* out of the row object, so a row holds only the columns it has a value in.   *)

Cell(k, v) == [k |-> k, v |-> v]

\* keys.some(s => k.toLowerCase() === s.toLowerCase())
ExactKey(k, keys) ==
    \E i \in 1..Len(keys) : ToLowerCase(k) = ToLowerCase(keys[i])

\* matchesKey && !isExcluded
PartialKey(k, keys, exclude) ==
    LET lowerK == ToLowerCase(k)
    IN  /\ \E i \in 1..Len(keys) : Includes(lowerK, ToLowerCase(keys[i]))
        /\ ~\E j \in 1..Len(exclude) : Includes(lowerK, ToLowerCase(exclude[j]))

\* rowKeys.find(k => ...): the first column in column order that is in hit, 0 if none
FirstOf(hit) == IF hit = {} THEN 0 ELSE MinOf(hit)

\* getValue taking the first column that qualifies under either rule
getValueFirstQualifying(row, keys, exclude) ==
    LET hit == FirstOf({i \in 1..Len(row) :
                          ExactKey(row[i].k, keys) \/ PartialKey(row[i].k, keys, exclude)})
    IN  IF hit # 0 /\ row[hit].k # <<>> THEN row[hit].v ELSE Undefined

\* getValue trying the synonyms in list order, each against every column
getValueBySynonym(row, keys, exclude) ==
    LET syn == FirstOf({s \in 1..Len(keys) :
                          \E i \in 1..Len(row) : ToLowerCase(row[i].k) = ToLowerCase(keys[s])})
        exact == IF syn = 0 THEN 0
                 ELSE FirstOf({i \in 1..Len(row) : ToLowerCase(row[i].k) = ToLowerCase(keys[syn])})
        partial == FirstOf({i \in 1..Len(row) : PartialKey(row[i].k, keys, exclude)})
    IN  IF exact # 0 /\ row[exact].k # <<>> THEN row[exact].v
        ELSE IF partial # 0 /\ row[partial].k # <<>> THEN row[partial].v
        ELSE Undefined

getValue(row, keys, exclude) ==
    LET exact == FirstOf({i \in 1..Len(row) : ExactKey(row[i].k, keys)})
        partial == FirstOf({i \in 1..Len(row) : PartialKey(row[i].k, keys, exclude)})
    IN  IF exact # 0 /\ row[exact].k # <<>> THEN row[exact].v
        ELSE IF partial # 0 /\ row[partial].k # <<>> THEN row[partial].v
        ELSE Undefined

CategoryKeys == << <<"c","a","t","e","g","o","r","y">>, <<"t","y","p","e">>, <<"u0E2B","u0E21","u0E27","u0E14">>, <<"u0E1B","u0E23","u0E30","u0E40","u0E20","u0E17">>, <<"g","r","o","u","p">> >>
NameKeys == << <<"n","a","m","e">>, <<"m","e","n","u">>, <<"i","t","e","m">>, <<"f","o","o","d">>, <<"u0E0A","u0E37","u0E48","u0E2D">>, <<"u0E23","u0E32","u0E22","u0E01","u0E32","u0E23">>, <<"u0E40","u0E21","u0E19","u0E39">> >>
NameExclude == << <<"o","p","t","i","o","n">>, <<"c","h","o","i","c","e">>, <<"u0E15","u0E31","u0E27","u0E40","u0E25","u0E37","u0E2D","u0E01">>, <<"u0E23","u0E32","u0E04","u0E32">>, <<"p","r","i","c","e">>, <<"i","m","g">> >>
ImageKeys == << <<"i","m","a","g","e">>, <<"i","m","g">>, <<"u","r","l">>, <<"p","h","o","t","o">>, <<"u0E23","u0E39","u0E1B">>, <<"p","i","c">>, <<"l","i","n","k">> >>
LineValueKeys == << <<"p","r","i","c","e">>, <<"c","o","s","t">>, <<"u0E23","u0E32","u0E04","u0E32">>, <<"v","a","l","u","e">>, <<"u0E04","u0E48","u0E32">>, <<"d","e","t","a","i","l">>, <<"d","e","s","c","r","i","p","t","i","o","n">>, <<"o","p","t","i","o","n">> >>
PriceKeys == << <<"p","r","i","c","e">>, <<"c","o","s","t">>, <<"u0E23","u0E32","u0E04","u0E32">>, <<"u0E1A","u0E32","u0E17">> >>
PriceExclude == << <<"o","p","t","i","o","n">> >>
DescKeys == << <<"d","e","s","c","r","i","p","t","i","o","n">>, <<"d","e","t","a","i","l">>, <<"u0E23","u0E32","u0E22","u0E25","u0E30","u0E40","u0E2D","u0E35","u0E22","u0E14">>, <<"u0E2A","u0E48","u0E27","u0E19","u0E1B","u0E23","u0E30","u0E01","u0E2D","u0E1A">>, <<"u0E04","u0E33","u0E2D","u0E18","u0E34","u0E1A","u0E32","u0E22">> >>
OptGroupKeys == << <<"o","p","t","i","o","n","_","g","r","o","u","p","_","n","a","m","e">>, <<"g","r","o","u","p","_","n","a","m","e">>, <<"o","p","t","i","o","n","_","g","r","o","u","p">>, <<"u0E2B","u0E31","u0E27","u0E02","u0E49","u0E2D","u0E15","u0E31","u0E27","u0E40","u0E25","u0E37","u0E2D","u0E01">>, <<"u0E01","u0E25","u0E38","u0E48","u0E21","u0E15","u0E31","u0E27","u0E40","u0E25","u0E37","u0E2D","u0E01">> >>
OptChoiceKeys == << <<"o","p","t","i","o","n","_","n","a","m","e">>, <<"c","h","o","i","c","e","_","n","a","m","e">>, <<"s","u","b","_","o","p","t","i","o","n">>, <<"u0E15","u0E31","u0E27","u0E40","u0E25","u0E37","u0E2D","u0E01">>, <<"u0E0A","u0E37","u0E48","u0E2D","u0E15","u0E31","u0E27","u0E40","u0E25","u0E37","u0E2D","u0E01">> >>
OptPriceModKeys == << <<"o","p","t","i","o","n","_","p","r","i","c","e","_","m","o","d","i","f","i","e","r">>, <<"p","r","i","c","e","_","m","o","d","i","f","i","e","r">>, <<"a","d","d","_","p","r","i","c","e">>, <<"u0E23","u0E32","u0E04","u0E32","u0E40","u0E1E","u0E34","u0E48","u0E21">>, <<"u0E1A","u0E27","u0E01">>, <<"m","o","d","i","f","i","e","r">> >>
OptHeaderKeys == << <<"o","p","t","i","o","n","_","h","e","a","d","e","r">>, <<"u0E2B","u0E31","u0E27","u0E02","u0E49","u0E2D">> >>
OptHeaderExclude == << <<"g","r","o","u","p">> >>
OptChoicesKeys == << <<"o","p","t","i","o","n","_","c","h","o","i","c","e","s">>, <<"c","h","o","i","c","e","s">>, <<"s","e","l","e","c","t","i","o","n","s">> >>
OptChoicesExclude == << <<"g","r","o","u","p">>, <<"n","a","m","e">> >>
ConfigKeywords == << <<"s","e","t","t","i","n","g">>, <<"c","o","n","f","i","g">>, <<"s","y","s","t","e","m">>, <<"u0E15","u0E31","u0E49","u0E07","u0E04","u0E48","u0E32">> >>
NoExclude == << >>

\* the values the row callback reads from one row
ResolveRow(row) ==
    LET rawName == getValue(row, NameKeys, NameExclude)
        rawImg == getValue(row, ImageKeys, NoExclude)
    IN  [ category |-> StringOf(OrElse(getValue(row, CategoryKeys, NoExclude),
                                       Str(<<"G","e","n","e","r","a","l">>))),
          rawName |-> rawName,
          name |-> Trim(StringOf(OrElse(rawName, Str(<<>>)))),
          processedImg |-> IF Truthy(rawImg) THEN processImageUrl(StringOf(rawImg)) ELSE <<>>,
          lineValue |-> getValue(row, LineValueKeys, NoExclude),
          price |-> getValue(row, PriceKeys, PriceExclude),
          desc |-> getValue(row, DescKeys, NoExclude),
          optGroupKey |-> getValue(row, OptGroupKeys, NoExclude),
          optChoiceKey |-> getValue(row, OptChoiceKeys, NoExclude),
          optPriceModKey |-> getValue(row, OptPriceModKeys, NoExclude),
          optName |-> getValue(row, OptHeaderKeys, OptHeaderExclude),
          optChoices |-> getValue(row, OptChoicesKeys, OptChoicesExclude) ]

\* IsConfigCategory without the toLowerCase
IsConfigCategoryCaseSensitive(category) ==
    \E i \in 1..Len(ConfigKeywords) : Includes(category, ConfigKeywords[i])

\* ConfigKeywords.some(k => category.toLowerCase().includes(k))
IsConfigCategory(category) ==
    \E i \in 1..Len(ConfigKeywords) : Includes(ToLowerCase(category), ConfigKeywords[i])

-----------------------------------------------------------------------------
(* Configuration extraction *)

EmptyConfig == [logoUrl |-> Undefined, qrCodeUrl |-> Undefined, lineOaId |-> Undefined]

\* ConfigAfter keeping the first value written to a key
ConfigAfterFirstWins(cfg, f) ==
    LET lname == ToLowerCase(f.name)
        possibleId == OrElse(OrElse(Str(f.processedImg), f.lineValue), Str(<<>>))
    IN  IF Includes(lname, <<"l","o","g","o">>)
        THEN IF cfg.logoUrl = Undefined THEN [cfg EXCEPT !.logoUrl = Str(f.processedImg)] ELSE cfg
        ELSE IF Includes(lname, <<"q","r">>) \/ Includes(lname, <<"p","a","y","m","e","n","t">>)
        THEN IF cfg.qrCodeUrl = Undefined THEN [cfg EXCEPT !.qrCodeUrl = Str(f.processedImg)] ELSE cfg
        ELSE IF Includes(lname, <<"l","i","n","e">>) /\ Truthy(possibleId) /\ cfg.lineOaId = Undefined
        THEN [cfg EXCEPT !.lineOaId = Str(extractLineId(possibleId))]
        ELSE cfg

\* the configuration branch of the row callback: the config after the row
ConfigAfter(cfg, f) ==
    LET lname == ToLowerCase(f.name)
        possibleId == OrElse(OrElse(Str(f.processedImg), f.lineValue), Str(<<>>))
    IN  IF Includes(lname, <<"l","o","g","o">>)
        THEN [cfg EXCEPT !.logoUrl = Str(f.processedImg)]
        ELSE IF Includes(lname, <<"q","r">>) \/ Includes(lname, <<"p","a","y","m","e","n","t">>)
        THEN [cfg EXCEPT !.qrCodeUrl = Str(f.processedImg)]
        ELSE IF Includes(lname, <<"l","i","n","e">>) /\ Truthy(possibleId)
        THEN [cfg EXCEPT !.lineOaId = Str(extractLineId(possibleId))]
        ELSE cfg

-----------------------------------------------------------------------------
(* Menu item extraction.  groupedItems is the object's own properties in      *)
(* insertion order; a lookup also sees what Object.prototype provides.        *)

\* property names every {} inherits: groupedItems[name] is truthy for them
ObjectPrototypeKeys ==
    { <<"c","o","n","s","t","r","u","c","t","o","r">>, <<"t","o","S","t","r","i","n","g">>, <<"v","a","l","u","e","O","f">>, <<"h","a","s","O","w","n","P","r","o","p","e","r","t","y">>,
      <<"i","s","P","r","o","t","o","t","y","p","e","O","f">>, <<"p","r","o","p","e","r","t","y","I","s","E","n","u","m","e","r","a","b","l","e">>, <<"t","o","L","o","c","a","l","e","S","t","r","i","n","g">>, <<"_","_","p","r","o","t","o","_","_">> }

\* index of the own property name, 0 if none
ItemIndex(items, name) ==
    LET hit == {i \in 1..Len(items) : items[i].name = name}
    IN  IF hit = {} THEN 0 ELSE MinOf(hit)

\* !groupedItems[name]
LacksItem(items, name) == ItemIndex(items, name) = 0 /\ name \notin ObjectPrototypeKeys

PlaceholderPrefix == <<"h","t","t","p","s",":","/","/","p","i","c","s","u","m",".","p","h","o","t","o","s","/","s","e","e","d","/">>
PlaceholderSuffix == <<"/","3","0","0","/","2","0","0">>

\* name.includes('Spicy') || (desc && String(desc).includes(<phrik>))
\*   || name.includes(<tom yam>) || name.includes(<phet>), the Thai words as tokens
IsSpicy(name, desc) ==
    \/ Includes(name, <<"S","p","i","c","y">>)
    \/ (Truthy(desc) /\ Includes(StringOf(desc), <<"u0E1E","u0E23","u0E34","u0E01">>))
    \/ Includes(name, <<"u0E15","u0E49","u0E21","u0E22","u0E33">>)
    \/ Includes(name, <<"u0E40","u0E1C","u0E47","u0E14">>)

\* the item literal assigned to groupedItems[name]
NewItem(items, f) ==
    [ id |-> <<"i","t","e","m","-">> \o NumToString(Len(items)),
      name |-> f.name,
      price |-> NumberOrZero(f.price),
      category |-> f.category,
      description |-> IF Truthy(f.desc) THEN Str(StringOf(f.desc)) ELSE Undefined,
      image |-> IF f.processedImg # <<>> THEN f.processedImg
                ELSE PlaceholderPrefix \o RemoveSpaces(f.name) \o PlaceholderSuffix,
      isSpicy |-> IsSpicy(f.name, f.desc),
      options |-> <<>> ]

\* WithItem assigning the item literal on every row, over an item already there
WithItemOverwrite(items, f) ==
    IF LacksItem(items, f.name) THEN Append(items, NewItem(items, f))
    ELSE IF ItemIndex(items, f.name) = 0 THEN items
    ELSE [items EXCEPT ![ItemIndex(items, f.name)] = NewItem(items, f)]

\* if (!groupedItems[name]) groupedItems[name] = {...}
WithItem(items, f) ==
    IF LacksItem(items, f.name) THEN Append(items, NewItem(items, f)) ELSE items

-----------------------------------------------------------------------------
(* Option parsing *)

\* index of the first group o with o.name === key, 0 if none; key is a cell value,
\* and === holds only between a string and an equal string
FindOption(options, key) ==
    LET hit == {i \in 1..Len(options) : key.t = "s" /\ options[i].name = key.s}
    IN  IF hit = {} THEN 0 ELSE MinOf(hit)

HasChoice(choices, cname) == \E i \in 1..Len(choices) : choices[i].name = cname

\* row-based encoding applies: both cells truthy, both trimmed names non-empty
RowBasedApplies(f) ==
    /\ Truthy(f.optGroupKey) /\ Truthy(f.optChoiceKey)
    /\ Trim(StringOf(f.optGroupKey)) # <<>>
    /\ Trim(StringOf(f.optChoiceKey)) # <<>>

\* Case 1: find or create the group, append the choice unless its name is there
RowBasedOptions(options, f) ==
    LET groupName == Trim(StringOf(f.optGroupKey))
        choiceName == Trim(StringOf(f.optChoiceKey))
        priceMod == NumberOrZero(f.optPriceModKey)
        found == FindOption(options, Str(groupName))
        opts == IF found = 0
                THEN Append(options, [name |-> groupName, choices |-> <<>>])
                ELSE options
        g == IF found = 0 THEN Len(opts) ELSE found
    IN  IF HasChoice(opts[g].choices, choiceName) THEN opts
        ELSE [opts EXCEPT ![g].choices =
                 Append(@, [name |-> choiceName, priceModifier |-> priceMod])]

\* String(optChoices).split(',').map(s => s.trim()).filter(s => s)
ChoiceTokens(optChoices) ==
    LET parts == Split(StringOf(optChoices), ",")
    IN  SelectSeq([i \in 1..Len(parts) |-> Trim(parts[i])], LAMBDA s : s # <<>>)

\* MergeChoices that assigns the new list in place of the group's choices
MergeChoicesOverwrite(choices, new) == new

RECURSIVE MergeChoices(_, _)
\* newChoiceObjs.forEach(nc => { if (!existingOpt.choices.some(...)) push })
MergeChoices(choices, new) ==
    IF new = <<>> THEN choices
    ELSE MergeChoices(IF HasChoice(choices, Head(new).name) THEN choices
                      ELSE Append(choices, Head(new)),
                      Tail(new))

\* Case 2: the comma-separated encoding
CommaOptions(options, f) ==
    IF ~(Truthy(f.optName) /\ Truthy(f.optChoices)) THEN options
    ELSE LET newChoicesStr == ChoiceTokens(f.optChoices)
             newChoiceObjs == [i \in 1..Len(newChoicesStr) |->
                                  [name |-> newChoicesStr[i], priceModifier |-> 0]]
             existingOpt == FindOption(options, f.optName)
         IN  IF newChoicesStr = <<>> THEN options
             ELSE IF existingOpt # 0
             THEN [options EXCEPT ![existingOpt].choices = MergeChoices(@, newChoiceObjs)]
             ELSE Append(options, [name |-> StringOf(f.optName), choices |-> newChoiceObjs])

\* the options of the row's item after the row
OptionsAfter(options, f) ==
    IF RowBasedApplies(f) THEN RowBasedOptions(options, f) ELSE CommaOptions(options, f)

\* ItemsAfter without the test if (!rawName) return
ItemsAfterNoNameGuard(items, f) ==
    LET its == WithItem(items, f)
        i == ItemIndex(its, f.name)
    IN  IF i = 0 THEN its
        ELSE [its EXCEPT ![i].options = OptionsAfter(@, f)]

\* the menu branch of the row callback: groupedItems after the row.  For a name
\* Object.prototype provides, item is that inherited value: item.options is
\* undefined and every item.options?. call does nothing.
ItemsAfter(items, f) ==
    IF ~Truthy(f.rawName) THEN items
    ELSE LET its == WithItem(items, f)
             i == ItemIndex(its, f.name)
         IN  IF i = 0 THEN its
             ELSE [its EXCEPT ![i].options = OptionsAfter(@, f)]

-----------------------------------------------------------------------------
(* The rows the fold is run on *)

cCategory == <<"C","a","t","e","g","o","r","y">>
cName == <<"N","a","m","e">>
cPrice == <<"P","r","i","c","e">>
cDescription == <<"D","e","s","c","r","i","p","t","i","o","n">>
cImage == <<"I","m","a","g","e">>
cOptGroup == <<"o","p","t","i","o","n","_","g","r","o","u","p","_","n","a","m","e">>
cOptName == <<"o","p","t","i","o","n","_","n","a","m","e">>
cPriceMod == <<"p","r","i","c","e","_","m","o","d","i","f","i","e","r">>
cOptHeader == <<"o","p","t","i","o","n","_","h","e","a","d","e","r">>
cOptChoices == <<"o","p","t","i","o","n","_","c","h","o","i","c","e","s">>

\* rows of the settings kind
ConfigRows ==
    { <<Cell(cCategory, Str(<<"S","e","t","t","i","n","g">>)), Cell(cName, Str(<<"L","o","g","o">>)),
        Cell(cImage, Str(<<"h","t","t","p","s",":","/","/","d","r","i","v","e",".","g","o","o","g","l","e",".","c","o","m","/","f","i","l","e","/","d","/","L","1","/","v","i","e","w">>))>>,
      <<Cell(cCategory, Str(<<"A","p","p"," ","C","o","n","f","i","g">>)), Cell(cImage, Str(<<"h","t","t","p",":","/","/","x","/","q",".","p","n","g">>))>>,
      <<Cell(cCategory, Str(<<"S","Y","S","T","E","M">>)), Cell(cName, Str(<<"A">>)), Cell(cPrice, Num(9))>> }

\* rows that name an item, or fail to
ItemRows ==
    { <<Cell(cCategory, Str(<<"M","a","i","n">>)), Cell(cName, Str(<<"A">>)), Cell(cPrice, Num(120))>>,
      <<Cell(cName, Str(<<"a">>)), Cell(cPrice, Str(<<"5">>))>>,
      <<Cell(cName, Str(<<" ","A"," ">>)), Cell(cDescription, Str(<<"h","o","t">>))>>,
      <<Cell(cCategory, Str(<<"M","a","i","n">>)), Cell(cName, Str(<<" "," ">>)), Cell(cPrice, Num(7))>>,
      <<Cell(cCategory, Str(<<"M","a","i","n">>)), Cell(cPrice, Num(7))>>,
      <<Cell(cName, Str(<<"c","o","n","s","t","r","u","c","t","o","r">>)), Cell(cPrice, Num(7))>> }

\* rows in the row-based option encoding
RowOptionRows ==
    { <<Cell(cName, Str(<<"A">>)), Cell(cOptGroup, Str(<<"G">>)), Cell(cOptName, Str(<<"x">>)),
        Cell(cPriceMod, Num(0))>>,
      <<Cell(cName, Str(<<"A">>)), Cell(cOptGroup, Str(<<"G">>)), Cell(cOptName, Str(<<"y">>)),
        Cell(cPriceMod, Num(2))>>,
      <<Cell(cName, Str(<<"A">>)), Cell(cOptGroup, Str(<<"G">>)), Cell(cOptName, Str(<<"x">>)),
        Cell(cPriceMod, Num(2))>>,
      <<Cell(cName, Str(<<"A">>)), Cell(cOptGroup, Num(1)), Cell(cOptName, Str(<<"x">>))>>,
      <<Cell(cName, Str(<<"a">>)), Cell(cOptGroup, Str(<<" ","G"," ">>)), Cell(cOptName, Str(<<" ","y"," ">>))>> }

\* rows in the comma-separated option encoding
CommaOptionRows ==
    { <<Cell(cName, Str(<<"A">>)), Cell(cOptHeader, Str(<<"G">>)), Cell(cOptChoices, Str(<<"x",",","z">>))>>,
      <<Cell(cName, Str(<<"A">>)), Cell(cOptHeader, Str(<<"H">>)), Cell(cOptChoices, Str(<<"z",","," ","z">>))>>,
      <<Cell(cName, Str(<<"A">>)), Cell(cOptHeader, Num(1)), Cell(cOptChoices, Str(<<"x">>))>>,
      <<Cell(cName, Str(<<"A">>)), Cell(cOptHeader, Str(<<" ","G">>)), Cell(cOptChoices, Str(<<"x">>))>> }

Rows == ConfigRows \cup ItemRows \cup RowOptionRows \cup CommaOptionRows

\* rows for the option parsing: both encodings, alone and in one row
OptionRows ==
    { <<Cell(cName, Str(<<"A">>)), Cell(cOptGroup, Str(<<"G">>)), Cell(cOptName, Str(<<"x">>)),
        Cell(cPriceMod, Num(0))>>,
      <<Cell(cName, Str(<<"A">>)), Cell(cOptGroup, Str(<<"G">>)), Cell(cOptName, Str(<<"y">>)),
        Cell(cPriceMod, Num(2))>>,
      <<Cell(cName, Str(<<"A">>)), Cell(cOptGroup, Str(<<"G">>)), Cell(cOptName, Str(<<"x">>)),
        Cell(cPriceMod, Num(2))>>,
      <<Cell(cName, Str(<<"A">>)), Cell(cOptGroup, Str(<<"G">>)), Cell(cOptName, Str(<<"z">>)),
        Cell(cPriceMod, Str(<<"f","r","e","e">>))>>,
      <<Cell(cName, Str(<<"A">>)), Cell(cOptGroup, Str(<<"G">>)), Cell(cOptName, Num(0)),
        Cell(cPriceMod, Num(1))>>,
      <<Cell(cName, Str(<<"c","o","n","s","t","r","u","c","t","o","r">>)), Cell(cOptGroup, Str(<<"G">>)), Cell(cOptName, Str(<<"x">>))>>,
      <<Cell(cName, Str(<<"A">>)), Cell(cOptHeader, Str(<<"G">>)), Cell(cOptChoices, Str(<<"x",",","x">>))>>,
      <<Cell(cName, Str(<<"A">>)), Cell(cOptHeader, Str(<<"G">>)), Cell(cOptChoices, Str(<<" ","y"," ",",",",","w">>))>>,
      <<Cell(cName, Str(<<"A">>)), Cell(cOptHeader, Num(1)), Cell(cOptChoices, Str(<<"x">>))>>,
      <<Cell(cName, Str(<<"A">>)), Cell(cOptHeader, Str(<<"G">>)), Cell(cOptChoices, Str(<<" ",","," ">>))>>,
      <<Cell(cName, Str(<<"A">>)), Cell(cOptGroup, Str(<<"G">>)), Cell(cOptName, Str(<<"x">>)),
        Cell(cOptHeader, Str(<<"H">>)), Cell(cOptChoices, Str(<<"z">>))>>,
      <<Cell(cName, Str(<<"A">>)), Cell(cOptGroup, Str(<<"G">>)), Cell(cOptName, Str(<<" ">>)),
        Cell(cOptHeader, Str(<<"H">>)), Cell(cOptChoices, Str(<<"y",",","z">>))>>,
      <<Cell(cName, Str(<<"A">>)), Cell(cOptGroup, Str(<<"G">>)), Cell(cOptName, Num(0)),
        Cell(cOptHeader, Str(<<"H">>)), Cell(cOptChoices, Str(<<"z">>))>> }

\* rows of the settings kind, for the three config keys
SettingRows ==
    { <<Cell(cCategory, Str(<<"S","e","t","t","i","n","g">>)), Cell(cName, Str(<<"L","o","g","o">>)),
        Cell(cImage, Str(<<"h","t","t","p","s",":","/","/","d","r","i","v","e",".","g","o","o","g","l","e",".","c","o","m","/","f","i","l","e","/","d","/","L","1","/","v","i","e","w">>))>>,
      <<Cell(cCategory, Str(<<"S","e","t","t","i","n","g">>)), Cell(cName, Str(<<"L","o","g","o">>))>>,
      <<Cell(cCategory, Str(<<"S","e","t","t","i","n","g">>)), Cell(cName, Str(<<"Q","R"," ","P","a","y","m","e","n","t">>)),
        Cell(cImage, Str(<<"h","t","t","p",":","/","/","x","/","q",".","p","n","g">>))>>,
      <<Cell(cCategory, Str(<<"S","e","t","t","i","n","g">>)), Cell(cName, Str(<<"q","r">>))>>,
      <<Cell(cCategory, Str(<<"S","e","t","t","i","n","g">>)), Cell(cName, Str(<<"L","i","n","e">>)),
        Cell(cPrice, Str(<<"h","t","t","p","s",":","/","/","l","i","n","e",".","m","e","/","R","/","t","i","/","p","/","@","s","e","o","u","l","g","o","o","d">>))>>,
      <<Cell(cCategory, Str(<<"S","e","t","t","i","n","g">>)), Cell(cName, Str(<<"L","i","n","e">>))>>,
      <<Cell(cCategory, Str(<<"S","e","t","t","i","n","g">>)), Cell(cName, Str(<<"L","i","n","e">>)),
        Cell(cPrice, Str(<<"@","p","r","i","c","e">>)), Cell(cImage, Str(<<" ","@","i","m","g"," ">>))>>,
      <<Cell(cCategory, Str(<<"S","e","t","t","i","n","g">>)), Cell(cName, Str(<<"L","i","n","e"," ","Q","R">>)),
        Cell(cImage, Str(<<"h","t","t","p",":","/","/","x","/","l",".","p","n","g">>))>>,
      <<Cell(cCategory, Str(<<"c","o","n","f","i","g">>)), Cell(cName, Str(<<"L","I","N","E"," ","O","A">>)),
        Cell(cDescription, Str(<<"l","i","n","e",".","m","e","/","t","i","/","p","/","@","d","?","o","p","e","n","E","x","t","e","r","n","a","l","B","r","o","w","s","e","r","=","1">>))>>,
      <<Cell(cCategory, Str(<<"S","e","t","t","i","n","g">>)), Cell(cName, Str(<<"L","i","n","e">>)),
        Cell(cPrice, Num(9)), Cell(cImage, Str(<<" ">>))>> }

\* rows that create items, for the spicy flag
SpicyRows ==
    { <<Cell(cCategory, Str(<<"M","a","i","n">>)), Cell(cName, Str(<<"K","i","m","c","h","i"," ","F","r","i","e","d"," ","R","i","c","e">>)), Cell(cPrice, Num(120)),
        Cell(cDescription, Str(<<"u0E40","u0E1C","u0E47","u0E14","u0E19","u0E34","u0E14","u0E46">>))>>,
      <<Cell(cName, Str(<<"S","p","i","c","y"," ","R","a","m","e","n">>)), Cell(cPrice, Num(90))>>,
      <<Cell(cName, Str(<<"s","p","i","c","y"," ","t","e","a">>)), Cell(cPrice, Num(40))>>,
      <<Cell(cName, Str(<<"u0E15","u0E49","u0E21","u0E22","u0E33">>)), Cell(cDescription, Str(<<"s","o","u","p">>))>>,
      <<Cell(cName, Str(<<"u0E40","u0E1C","u0E47","u0E14">>))>>,
      <<Cell(cName, Str(<<"u0E1E","u0E23","u0E34","u0E01">>))>>,
      <<Cell(cName, Str(<<"B">>)), Cell(cDescription, Str(<<"u0E1E","u0E23","u0E34","u0E01">>))>>,
      <<Cell(cName, Str(<<"C">>)), Cell(cDescription, Str(<<"S","p","i","c","y">>))>>,
      <<Cell(cName, Str(<<"D">>)), Cell(cDescription, Str(<<"m","i","l","d">>))>>,
      <<Cell(cName, Str(<<"E">>)), Cell(cDescription, Num(0))>> }

\* rows that create items with or without a price and an image
DefaultRows ==
    { <<Cell(cCategory, Str(<<"M","a","i","n">>)), Cell(cName, Str(<<"I","c","e","d"," ","T","e","a">>)), Cell(cPrice, Num(40)),
        Cell(cImage, Str(<<"h","t","t","p",":","/","/","x","/","t",".","p","n","g">>))>>,
      <<Cell(cName, Str(<<"I","c","e","d"," ","T","e","a">>))>>,
      <<Cell(cName, Str(<<"B">>)), Cell(cPrice, Str(<<"f","r","e","e">>)), Cell(cImage, Str(<<"h","t","t","p",":","/","/","x","/","b",".","p","n","g">>))>>,
      <<Cell(cName, Str(<<"B">>)), Cell(cPrice, Num(50))>>,
      <<Cell(cName, Str(<<"C">>)), Cell(cOptGroup, Str(<<"G">>)), Cell(cOptName, Str(<<"x">>)),
        Cell(cPriceMod, Num(20))>>,
      <<Cell(cName, Str(<<"c","o","n","s","t","r","u","c","t","o","r">>)), Cell(cPrice, Num(7))>>,
      <<Cell(cName, Str(<<"D">>)), Cell(cPrice, Str(<<"1","2","a","b","c">>))>>,
      <<Cell(cCategory, Str(<<"S","e","t","t","i","n","g">>)), Cell(cName, Str(<<"L","o","g","o">>))>>,
      <<Cell(cCategory, Str(<<"M","a","i","n">>)), Cell(cPrice, Num(7))>> }

\* the sheets the App is loaded from: a menu sheet, settings sheets, an empty sheet
MenuSheet ==
    << <<Cell(cCategory, Str(<<"M","a","i","n">>)), Cell(cName, Str(<<"T","e","a">>)), Cell(cPrice, Num(40)),
         Cell(cOptGroup, Str(<<"G">>)), Cell(cOptName, Str(<<"x">>)), Cell(cPriceMod, Num(0))>>,
       <<Cell(cName, Str(<<"T","e","a">>)), Cell(cOptGroup, Str(<<"G">>)), Cell(cOptName, Str(<<"y">>)),
         Cell(cPriceMod, Num(5))>>,
       <<Cell(cName, Str(<<"B">>)), Cell(cPrice, Num(50))>> >>

PlainSheet == << <<Cell(cName, Str(<<"B">>)), Cell(cPrice, Num(50))>> >>

SettingsSheet ==
    << <<Cell(cCategory, Str(<<"S","e","t","t","i","n","g">>)), Cell(cName, Str(<<"L","o","g","o">>)),
         Cell(cImage, Str(<<"h","t","t","p","s",":","/","/","d","r","i","v","e",".","g","o","o","g","l","e",".","c","o","m","/","f","i","l","e","/","d","/","L","1","/","v","i","e","w">>))>>,
       <<Cell(cCategory, Str(<<"S","e","t","t","i","n","g">>)), Cell(cName, Str(<<"Q","R"," ","P","a","y","m","e","n","t">>)),
         Cell(cImage, Str(<<"h","t","t","p",":","/","/","x","/","q",".","p","n","g">>))>>,
       <<Cell(cCategory, Str(<<"S","e","t","t","i","n","g">>)), Cell(cName, Str(<<"L","i","n","e">>)),
         Cell(cPrice, Str(<<"h","t","t","p","s",":","/","/","l","i","n","e",".","m","e","/","R","/","t","i","/","p","/","@","s","e","o","u","l","g","o","o","d">>))>> >>

BareSettingsSheet ==
    << <<Cell(cCategory, Str(<<"S","e","t","t","i","n","g">>)), Cell(cName, Str(<<"L","o","g","o">>))>>,
       <<Cell(cCategory, Str(<<"S","e","t","t","i","n","g">>)), Cell(cName, Str(<<"L","i","n","e">>)), Cell(cPrice, Str(<<"@","s","h","e","e","t">>))>> >>

EmptySheet == << >>

AppSheets == {MenuSheet, PlainSheet, SettingsSheet, BareSettingsSheet, EmptySheet}

AppRows == UNION { {sh[i] : i \in 1..Len(sh)} : sh \in AppSheets }

\* every row of the vocabularies
AllRows == Rows \cup OptionRows \cup SettingRows \cup SpicyRows \cup DefaultRows \cup AppRows

\* the fields of every row of the vocabularies
Resolved == [r \in AllRows |-> ResolveRow(r)]

-----------------------------------------------------------------------------
(* fetchMenuFromSheet *)

\* the most rows folded in one run
MaxRows == 3

\* workbook.SheetNames
SheetNames == <<"Menu", "Options">>

TextHtml == <<"t","e","x","t","/","h","t","m","l">>

\* what response.headers.get('content-type') may give
ContentTypes ==
    { Undefined,
      Str(<<"t","e","x","t","/","h","t","m","l",";"," ","c","h","a","r","s","e","t","=","u","t","f","-","8">>),
      Str(<<"a","p","p","l","i","c","a","t","i","o","n","/","v","n","d",".","o","p","e","n","x","m","l","f","o","r","m","a","t","s","-","o","f","f","i","c","e","d","o","c","u","m","e","n","t",".","s","p","r","e","a","d","s","h","e","e","t","m","l",".","s","h","e","e","t">>) }

NoResponse == [contentType |-> Undefined, ok |-> FALSE]
NoRow == << >>
EmptyResult == [items |-> <<>>, config |-> EmptyConfig]

\* IsHtmlResponse with the header compared for equality: misses "text/html; charset=..."
IsHtmlResponseExact(ct) == ct = Str(TextHtml)

\* contentType && contentType.includes('text/html')
IsHtmlResponse(ct) == Truthy(ct) /\ Includes(StringOf(ct), TextHtml)

RECURSIVE InsertByIndex(_, _)
\* insert item it into the sequence sorted by the numeric value of the name
InsertByIndex(sorted, it) ==
    IF sorted = <<>> THEN <<it>>
    ELSE IF DigitsToNum(it.name, 0) < DigitsToNum(Head(sorted).name, 0)
         THEN <<it>> \o sorted
         ELSE <<Head(sorted)>> \o InsertByIndex(Tail(sorted), it)

RECURSIVE SortByIndex(_)
SortByIndex(items) ==
    IF items = <<>> THEN <<>> ELSE InsertByIndex(SortByIndex(Tail(items)), Head(items))

\* a property name that is an array index: a decimal integer without leading zero
IsArrayIndex(name) ==
    /\ name # <<>>
    /\ \A i \in 1..Len(name) : IsDigit(name[i])
    /\ (Len(name) = 1 \/ name[1] # "0")

\* Object.values(groupedItems): array-index names first, in ascending numeric
\* order, then the other names in insertion order
ObjectValues(items) ==
    SortByIndex(SelectSeq(items, LAMBDA it : IsArrayIndex(it.name)))
        \o SelectSeq(items, LAMBDA it : ~IsArrayIndex(it.name))

\* the catch block: what the promise settles to
CatchOutcome == [settled |-> "resolved", result |-> EmptyResult]

FoldInit ==
    /\ pc = "fetch"
    /\ response = NoResponse
    /\ thrown = "none"
    /\ groupedItems = <<>>
    /\ config = EmptyConfig
    /\ lastRow = NoRow
    /\ nRows = 0
    /\ sheetNo = 0
    /\ result = EmptyResult
    /\ settled = "pending"
    /\ rowLog = <<>>

\* await fetch(...) rejects: the host is unreachable
FetchFails ==
    /\ pc = "fetch"
    /\ thrown' = "network"
    /\ pc' = "catch"
    /\ UNCHANGED <<response, groupedItems, config, lastRow, nRows, sheetNo, result, settled>>
    /\ UNCHANGED <<nonFoldVars, rowLog>>

\* await fetch(...) gives a response
FetchResponds ==
    /\ pc = "fetch"
    /\ \E ct \in ContentTypes, ok \in BOOLEAN :
          response' = [contentType |-> ct, ok |-> ok]
    /\ pc' = "check"
    /\ UNCHANGED <<thrown, groupedItems, config, lastRow, nRows, sheetNo, result, settled>>
    /\ UNCHANGED <<nonFoldVars, rowLog>>

\* the content-type test and the response.ok test
CheckResponse ==
    /\ pc = "check"
    /\ IF IsHtmlResponse(response.contentType)
       THEN thrown' = "PERMISSION_DENIED" /\ pc' = "catch"
       ELSE IF ~response.ok
       THEN thrown' = "Failed to fetch menu data" /\ pc' = "catch"
       ELSE thrown' = thrown /\ pc' = "decode"
    /\ UNCHANGED <<response, groupedItems, config, lastRow, nRows, sheetNo, result, settled>>
    /\ UNCHANGED <<nonFoldVars, rowLog>>

\* response.arrayBuffer() rejects or XLSX.read throws
DecodeFails ==
    /\ pc = "decode"
    /\ thrown' = "decode"
    /\ pc' = "catch"
    /\ UNCHANGED <<response, groupedItems, config, lastRow, nRows, sheetNo, result, settled>>
    /\ UNCHANGED <<nonFoldVars, rowLog>>

\* the workbook is read; the accumulators start empty; the first sheet is entered
DecodeOk ==
    /\ pc = "decode"
    /\ groupedItems' = <<>>
    /\ config' = EmptyConfig
    /\ sheetNo' = 1
    /\ pc' = "fold"
    /\ UNCHANGED <<response, thrown, lastRow, nRows, result, settled>>
    /\ UNCHANGED <<nonFoldVars, rowLog>>

\* the rawData.forEach callback on one row
FoldRow(row) ==
    /\ pc = "fold"
    /\ nRows < MaxRows
    /\ LET f == Resolved[row]
       IN  IF IsConfigCategory(f.category)
           THEN /\ config' = ConfigAfter(config, f)
                /\ groupedItems' = groupedItems
           ELSE /\ groupedItems' = ItemsAfter(groupedItems, f)
                /\ config' = config
    /\ lastRow' = row
    /\ nRows' = nRows + 1
    /\ UNCHANGED <<pc, response, thrown, sheetNo, result, settled>>
    /\ UNCHANGED nonFoldVars

\* the callback, in a run that keeps no log of its rows
ProcessRow(row) == FoldRow(row) /\ UNCHANGED rowLog

\* the callback, in a run that logs its rows
ProcessRowLogged(row) == FoldRow(row) /\ rowLog' = Append(rowLog, row)

\* workbook.SheetNames.forEach moves to the next sheet
NextSheet ==
    /\ pc = "fold"
    /\ sheetNo < Len(SheetNames)
    /\ sheetNo' = sheetNo + 1
    /\ UNCHANGED <<pc, response, thrown, groupedItems, config, lastRow, nRows, result, settled>>
    /\ UNCHANGED <<nonFoldVars, rowLog>>

\* return { items: Object.values(groupedItems), config }
Return ==
    /\ pc = "fold"
    /\ result' = [items |-> ObjectValues(groupedItems), config |-> config]
    /\ settled' = "resolved"
    /\ pc' = "done"
    /\ UNCHANGED <<response, thrown, groupedItems, config, lastRow, nRows, sheetNo>>
    /\ UNCHANGED <<nonFoldVars, rowLog>>

\* catch (error) { return { items: [], config: {} } }
Catch ==
    /\ pc = "catch"
    /\ result' = CatchOutcome.result
    /\ settled' = CatchOutcome.settled
    /\ pc' = "done"
    /\ UNCHANGED <<response, thrown, groupedItems, config, lastRow, nRows, sheetNo>>
    /\ UNCHANGED <<nonFoldVars, rowLog>>

Next ==
    \/ FetchFails
    \/ FetchResponds
    \/ CheckResponse
    \/ DecodeFails
    \/ DecodeOk
    \/ \E row \in Rows : ProcessRow(row)
    \/ NextSheet
    \/ Return
    \/ Catch

\* a run over the rows that create items with or without a price and an image
NextDefaults ==
    \/ FetchFails
    \/ FetchResponds
    \/ CheckResponse
    \/ DecodeFails
    \/ DecodeOk
    \/ \E row \in DefaultRows : ProcessRow(row)
    \/ NextSheet
    \/ Return
    \/ Catch

\* a run over the option rows, keeping the log of its rows
NextOptions ==
    \/ FetchFails
    \/ FetchResponds
    \/ CheckResponse
    \/ DecodeFails
    \/ DecodeOk
    \/ \E row \in OptionRows : ProcessRowLogged(row)
    \/ NextSheet
    \/ Return
    \/ Catch

\* a run over the settings rows, keeping the log of its rows
NextSettings ==
    \/ FetchFails
    \/ FetchResponds
    \/ CheckResponse
    \/ DecodeFails
    \/ DecodeOk
    \/ \E row \in SettingRows : ProcessRowLogged(row)
    \/ NextSheet
    \/ Return
    \/ Catch

\* a run over the rows that create items
NextSpicy ==
    \/ FetchFails
    \/ FetchResponds
    \/ CheckResponse
    \/ DecodeFails
    \/ DecodeOk
    \/ \E row \in SpicyRows : ProcessRow(row)
    \/ NextSheet
    \/ Return
    \/ Catch

-----------------------------------------------------------------------------
(* Header row detection, per sheet *)

\* JSON.stringify of a string: quoted, with ", \ and control characters escaped
JsonEscapeChar(c) ==
    IF c = "\"" THEN <<"\\", "\"">>
    ELSE IF c = "\\" THEN <<"\\", "\\">>
    ELSE IF c = "\n" THEN <<"\\", "n">>
    ELSE IF c = "\t" THEN <<"\\", "t">>
    ELSE IF c = "\r" THEN <<"\\", "r">>
    ELSE <<c>>

JsonString(s) == <<"\"">> \o Concat([i \in 1..Len(s) |-> JsonEscapeChar(s[i])]) \o <<"\"">>

\* JSON.stringify of one array element: a blank cell (a hole) prints as null
JsonCell(c) ==
    IF c.t = "s" THEN JsonString(c.s)
    ELSE IF c.t = "n" THEN NumToString(c.n)
    ELSE <<"n","u","l","l">>

\* JSON.stringify(rows[i])
JsonStringify(row) ==
    <<"[">> \o
    Concat([i \in 1..Len(row) |-> (IF i > 1 THEN <<",">> ELSE <<>>) \o JsonCell(row[i])]) \o
    <<"]">>

searchKeywords ==
  << <<"n","a","m","e">>,
     <<"m","e","n","u">>,
     <<"i","t","e","m">>,
     <<"u0E0A","u0E37","u0E48","u0E2D">>,
     <<"u0E23","u0E32","u0E22","u0E01","u0E32","u0E23">>,
     <<"c","a","t","e","g","o","r","y">>,
     <<"u0E2B","u0E21","u0E27","u0E14">>,
     <<"p","r","i","c","e">>,
     <<"u0E23","u0E32","u0E04","u0E32">> >>

\* searchKeywords.filter(k => rowStr.includes(k)).length
matchCount(row) ==
    LET rowStr == ToLowerCase(JsonStringify(row))
    IN  Cardinality({k \in 1..Len(searchKeywords) : Includes(rowStr, searchKeywords[k])})

\* the threshold of the test matchCount >= 2
MinMatches == 2

\* the scan window of the loop: i < Math.min(rows.length, 10)
ScanLimit == 10

\* ScanEnd without the cap of 10 rows
ScanEndWholeSheet(rows) == Len(rows)

ScanEnd(rows) == IF Len(rows) < ScanLimit THEN Len(rows) ELSE ScanLimit

RECURSIVE ScanFromOneMatch(_, _)
\* ScanFrom that takes a single keyword match for a header
ScanFromOneMatch(rows, i) ==
    IF i >= (IF Len(rows) < ScanLimit THEN Len(rows) ELSE ScanLimit) THEN 0
    ELSE IF matchCount(rows[i + 1]) >= 1 THEN i
    ELSE ScanFromOneMatch(rows, i + 1)

RECURSIVE ScanFrom(_, _)
\* the for loop from index i (0-based): break at the first row with enough matches;
\* headerRowIndex keeps its initial 0 when the loop runs out
ScanFrom(rows, i) ==
    IF i >= ScanEnd(rows) THEN 0
    ELSE IF matchCount(rows[i + 1]) >= MinMatches THEN i
    ELSE ScanFrom(rows, i + 1)

DetectHeaderRow(rows) == ScanFrom(rows, 0)

-----------------------------------------------------------------------------
(* Header detection: the sheets the scan is run on *)

\* rows a spreadsheet author puts above the header: blank, title, note
BlankRow == <<>>
TitleRow == <<Str(<<"S","e","o","u","l","G","o","o","d">>)>>
FillerRows == {BlankRow, TitleRow}
LeadRows ==
    { BlankRow,
      TitleRow,
      <<Str(<<"I","t","e","m"," ","n","o","t","e","s">>)>>,
      <<Str(<<"M","e","n","u"," ","P","r","i","c","e"," ","L","i","s","t">>)>>,
      <<Str(<<"P","r","i","c">>), Str(<<"e">>)>>,
      <<Undefined, Str(<<"P","r","i","c","e","\n","a","m","e">>)>> }

\* rows meant as the column header
HeaderRows ==
    { <<Str(<<"C","a","t","e","g","o","r","y">>), Str(<<"N","a","m","e">>), Str(<<"P","r","i","c","e">>)>>,
      <<Str(<<"u0E0A","u0E37","u0E48","u0E2D">>), Undefined, Str(<<"u0E23","u0E32","u0E04","u0E32">>)>>,
      <<Str(<<"N","a","m","e">>), Num(1)>> }

\* rows below the header
DataRows ==
    { <<Str(<<"M","a","i","n">>), Str(<<"K","i","m","c","h","i">>), Num(120)>>,
      <<Str(<<"S","e","t"," ","M","e","n","u">>), Str(<<"I","t","e","m"," ","A">>), Num(5)>> }

\* the most rows above the header
MaxLead == 11

\* the most rows below the header
MaxData == 1

\* h rows of filler f, with row q at position p (p = 0: nowhere)
LeadPart(h, f, p, q) == [i \in 1..h |-> IF i = p THEN q ELSE f]

HdrInit ==
    \E h \in 0..MaxLead, f \in FillerRows, q \in LeadRows, d \in 0..MaxData, dr \in DataRows :
    \E p \in 0..h, hr \in HeaderRows \cup {BlankRow} :
        /\ sheetRows = LeadPart(h, f, p, q)
                         \o (IF hr = BlankRow THEN <<>> ELSE <<hr>>)
                         \o [i \in 1..d |-> dr]
        /\ trueHeader = IF hr = BlankRow THEN -1 ELSE h
        /\ headerRowIndex = 0
        /\ hdrPc = "scan"

\* if (!rows || rows.length === 0) return;
SkipEmptySheet ==
    /\ hdrPc = "scan"
    /\ Len(sheetRows) = 0
    /\ hdrPc' = "skipped"
    /\ UNCHANGED <<sheetRows, trueHeader, headerRowIndex>>
    /\ UNCHANGED nonHdrVars

\* the header scan of a non-empty sheet
DetectHeader ==
    /\ hdrPc = "scan"
    /\ Len(sheetRows) > 0
    /\ headerRowIndex' = DetectHeaderRow(sheetRows)
    /\ hdrPc' = "done"
    /\ UNCHANGED <<sheetRows, trueHeader>>
    /\ UNCHANGED nonHdrVars

HdrNext == SkipEmptySheet \/ DetectHeader

\* the header scan at rest, for the specifications that do not run it
HdrIdle ==
    /\ sheetRows = <<>>
    /\ trueHeader = -1
    /\ headerRowIndex = 0
    /\ hdrPc = "idle"

-----------------------------------------------------------------------------
(* getValue on one row, for each of its call sites *)

\* the call sites of getValue
GvFields ==
    {"category", "name", "image", "line", "price", "desc",
     "optGroup", "optChoice", "optPriceMod", "optHeader", "optChoices"}

\* the synonym list a call site passes
GvKeys(field) ==
    CASE field = "category" -> CategoryKeys
      [] field = "name" -> NameKeys
      [] field = "image" -> ImageKeys
      [] field = "line" -> LineValueKeys
      [] field = "price" -> PriceKeys
      [] field = "desc" -> DescKeys
      [] field = "optGroup" -> OptGroupKeys
      [] field = "optChoice" -> OptChoiceKeys
      [] field = "optPriceMod" -> OptPriceModKeys
      [] field = "optHeader" -> OptHeaderKeys
      [] field = "optChoices" -> OptChoicesKeys

\* the exclusion list a call site passes
GvExclude(field) ==
    CASE field = "name" -> NameExclude
      [] field = "price" -> PriceExclude
      [] field = "optHeader" -> OptHeaderExclude
      [] field = "optChoices" -> OptChoicesExclude
      [] OTHER -> NoExclude

\* column headers a sheet may carry
GvHeaders ==
    { <<"N","a","m","e">>, <<"M","E","N","U">>, <<"F","u","l","l"," ","n","a","m","e">>, <<"o","p","t","i","o","n","_","n","a","m","e">>, <<"P","r","i","c","e">>, <<"I","t","e","m"," ","p","r","i","c","e">>,
      <<"C","a","t","e","g","o","r","y">>, <<"g","r","o","u","p","_","n","a","m","e">>, <<"C","o","s","t">>,
      <<"p","r","i","c","e","_","m","o","d","i","f","i","e","r">>, <<"a","d","d","_","p","r","i","c","e">>, <<"o","p","t","i","o","n","_","g","r","o","u","p">> }

\* the most columns of a row
GvMaxCols == 2

\* a row object with the given headers, in column order; column i holds i - 1
GvRowOf(hs) == [i \in 1..Len(hs) |-> Cell(hs[i], Num(i - 1))]

\* the rows: up to GvMaxCols columns with distinct headers
GvRows ==
    { GvRowOf(hs) : hs \in { h \in UNION { [1..n -> GvHeaders] : n \in 0..GvMaxCols } :
                               \A i, j \in 1..Len(h) : i # j => h[i] # h[j] } }

GvInit ==
    /\ gvRow \in GvRows
    /\ gvField \in GvFields
    /\ gvResult = Undefined
    /\ gvPc = "call"

\* one call of getValue(keys, exclude) inside the row callback
CallGetValue ==
    /\ gvPc = "call"
    /\ gvResult' = getValue(gvRow, GvKeys(gvField), GvExclude(gvField))
    /\ gvPc' = "returned"
    /\ UNCHANGED <<gvRow, gvField>>
    /\ UNCHANGED nonGvVars

GvNext == CallGetValue

\* getValue at rest, for the specifications that do not run it alone
GvIdle ==
    /\ gvRow = <<>>
    /\ gvField = "name"
    /\ gvResult = Undefined
    /\ gvPc = "idle"

-----------------------------------------------------------------------------
(* processImageUrl on one URL *)

ImgHosts == { <<"h","t","t","p","s",":","/","/","d","r","i","v","e",".","g","o","o","g","l","e",".","c","o","m">>, <<"h","t","t","p","s",":","/","/","e","x","a","m","p","l","e",".","c","o","m">> }

ImgPaths ==
    { <<"/","f","i","l","e","/","d","/","I","D","/","v","i","e","w">>, <<"/","f","i","l","e","/","d","/","/","v","i","e","w">>, <<"/","f","i","l","e","/","d","/","I","D">>, <<"/","o","p","e","n","?","i","d","=","I","D">>, <<"/","o","p","e","n","?","i","d","=">>,
      <<"/","o","p","e","n","?","i","d","=","I","D","&","x","=","1">>, <<"/","o","p","e","n","?","i","d","=","&","x","=","1">>, <<"/","a",".","p","n","g">>, <<"/","f","i","l","e","/","d","/","/","v","i","e","w","?","i","d","=","Q">>, <<>> }

ImgPads == { <<>>, <<" ">> }

\* the strings processImageUrl is called on: the empty string, and a host and a path
\* with or without white space around them
ImgUrls ==
    {<<>>} \cup { pre \o host \o path \o suf :
                     pre \in ImgPads, host \in ImgHosts, path \in ImgPaths, suf \in ImgPads }

ImgInit ==
    /\ imgUrl \in ImgUrls
    /\ imgResult = <<>>
    /\ imgPc = "call"

\* one call of processImageUrl(url)
CallProcessImageUrl ==
    /\ imgPc = "call"
    /\ imgResult' = processImageUrl(imgUrl)
    /\ imgPc' = "returned"
    /\ UNCHANGED imgUrl
    /\ UNCHANGED nonImgVars

ImgNext == CallProcessImageUrl

\* processImageUrl at rest, for the specifications that do not run it alone
ImgIdle ==
    /\ imgUrl = <<>>
    /\ imgResult = <<>>
    /\ imgPc = "idle"

-----------------------------------------------------------------------------
(* App: the stored settings, the first render and loadData *)

\* localStorage.getItem throws (storage blocked)
StorageThrows == [t |-> "x", s |-> <<>>, n |-> 0]

\* what localStorage may hold under each key; Undefined stands for null
LogoItems == { Undefined, StorageThrows, Str(<<>>), Str(<<"n","u","l","l">>), Str(<<"u","n","d","e","f","i","n","e","d">>), Str(<<"d","a","t","a",":","L">>) }
QrItems == { Undefined, Str(<<>>), Str(<<" ">>), Str(<<"d","a","t","a",":","Q">>) }
LineIdItems ==
    { Undefined, Str(<<"u","n","d","e","f","i","n","e","d">>), Str(<<"@","l","o","c","a","l">>), Str(<<" ">>),
      Str(<<"h","t","t","p","s",":","/","/","l","i","n","e",".","m","e","/","R","/","t","i","/","p","/","@","l","o","c","?","x","=","1">>), Str(<<" ","@","p","a","d"," ">>) }

StorageContents ==
    { [app_logo |-> l, app_qr |-> q, app_line_id |-> i] :
         l \in LogoItems, q \in QrItems, i \in LineIdItems }

NoStorage == [app_logo |-> Undefined, app_qr |-> Undefined, app_line_id |-> Undefined]

\* getSafeStorage(key), item being what localStorage.getItem(key) does
getSafeStorage(item) ==
    IF item = StorageThrows THEN Undefined
    ELSE IF item \in {Str(<<"n","u","l","l">>), Str(<<"u","n","d","e","f","i","n","e","d">>), Str(<<>>)} THEN Undefined
    ELSE item

DEFAULT_LOGO == <<"d","a","t","a",":","i","m","a","g","e","/","s","v","g","+","x","m","l",";","u","t","f","8",",","<","s","v","g","/",">">>
DEFAULT_QR == <<"h","t","t","p","s",":","/","/","a","p","i",".","q","r","s","e","r","v","e","r",".","c","o","m","/","v","1","/","c","r","e","a","t","e","-","q","r","-","c","o","d","e","/">>

\* cleanLineId(id)
cleanLineId(id) ==
    IF ~Truthy(id) THEN <<>>
    ELSE LET str == Trim(id.s)
         IN  IF Includes(str, <<"l","i","n","e",".","m","e">>)
             THEN LET parts == Split(str, "/")
                  IN  Split(parts[Len(parts)], "?")[1]
             ELSE str

\* finalLogoUrl taking the sheet value before the local one
finalLogoUrlSheetFirst == StringOf(OrElse(OrElse(sheetConfig.logoUrl, localLogo), Str(DEFAULT_LOGO)))

finalLogoUrl == StringOf(OrElse(OrElse(localLogo, sheetConfig.logoUrl), Str(DEFAULT_LOGO)))
finalQrUrl == StringOf(OrElse(OrElse(localQr, sheetConfig.qrCodeUrl), Str(DEFAULT_QR)))
finalLineId == cleanLineId(OrElse(localLineId, sheetConfig.lineOaId))

\* the state of the first render, for what localStorage holds
AppMount ==
    /\ localLogo = getSafeStorage(storage.app_logo)
    /\ localQr = getSafeStorage(storage.app_qr)
    /\ localLineId = getSafeStorage(storage.app_line_id)
    /\ sheetConfig = EmptyConfig
    /\ loading = TRUE
    /\ menu = <<>>
    /\ cart = <<>>
    /\ isCartOpen = FALSE
    /\ selectedItem = 0
    /\ tempQuantity = 1
    /\ tempNote = ""
    /\ tempSelectedOptions = <<>>
    /\ customerName = ""
    /\ customerPhone = ""
    /\ slipPreview = ""
    /\ showConfirmModal = FALSE
    /\ isSavingOrder = FALSE
    /\ currentOrderId = ""
    /\ orders = <<>>
    /\ closeTimers = 0
    /\ lastAlert = "none"

\* the App at rest, for the specifications of fetchMenuFromSheet alone
AppIdle == storage = NoStorage /\ AppMount

RECURSIVE FoldOver(_)
\* rawData.forEach over the rows of a sheet: the accumulators after the last row
FoldOver(rows) ==
    IF rows = <<>> THEN [items |-> <<>>, config |-> EmptyConfig]
    ELSE LET acc == FoldOver(SubSeq(rows, 1, Len(rows) - 1))
             f == Resolved[rows[Len(rows)]]
         IN  IF IsConfigCategory(f.category)
             THEN [items |-> acc.items, config |-> ConfigAfter(acc.config, f)]
             ELSE [items |-> ItemsAfter(acc.items, f), config |-> acc.config]

\* fetchMenuFromSheet has resolved on a workbook whose rows are rows
FetchedFrom(rows) ==
    /\ pc = "done"
    /\ response = [contentType |-> Undefined, ok |-> TRUE]
    /\ thrown = "none"
    /\ groupedItems = FoldOver(rows).items
    /\ config = FoldOver(rows).config
    /\ lastRow = IF rows = <<>> THEN NoRow ELSE rows[Len(rows)]
    /\ nRows = Len(rows)
    /\ sheetNo = Len(SheetNames)
    /\ result = [items |-> ObjectValues(FoldOver(rows).items), config |-> FoldOver(rows).config]
    /\ settled = "resolved"
    /\ rowLog = <<>>

\* loadData after its await: setMenu, setSheetConfig, setLoading(false)
LoadData ==
    /\ loading
    /\ settled = "resolved"
    /\ menu' = result.items
    /\ sheetConfig' = result.config
    /\ loading' = FALSE
    /\ UNCHANGED <<storage, localLogo, localQr, localLineId>>
    /\ UNCHANGED <<modalVars, cartVars, formVars, orderVars>>
    /\ UNCHANGED nonAppVars

\* the render with the empty-menu panel left out
ViewWithoutEmptyPanel == IF loading THEN "loading" ELSE "menu"

\* what the render shows: the spinner, the empty-menu panel or the menu grid
View == IF loading THEN "loading" ELSE IF Len(menu) = 0 THEN "empty" ELSE "menu"

\* the settings shown, for every stored override and sheet
InitDisplay ==
    /\ storage \in StorageContents
    /\ \E sheet \in {SettingsSheet, BareSettingsSheet, EmptySheet} : FetchedFrom(sheet)
    /\ AppMount
    /\ HdrIdle /\ GvIdle /\ ImgIdle

NextDisplay == LoadData

-----------------------------------------------------------------------------
(* App: the item modal and the cart *)

\* the largest quantity of the modal and of a cart line, and the most cart lines
MaxQty == 2
MaxLines == 2

\* what the customer may type as a note
Notes == {"", "no ice"}

\* obj[key] = value on an object given as its (name, value) entries in insertion order
SetKey(obj, key, value) ==
    IF \E i \in 1..Len(obj) : obj[i].name = key
    THEN [i \in 1..Len(obj) |-> IF obj[i].name = key THEN [name |-> key, value |-> value] ELSE obj[i]]
    ELSE Append(obj, [name |-> key, value |-> value])

RECURSIVE DefaultOptions(_)
\* openItemModal: defaultOpts[opt.name] = opt.choices[0].name for each group with a choice
DefaultOptions(options) ==
    IF options = <<>> THEN <<>>
    ELSE LET opt == options[Len(options)]
             rest == DefaultOptions(SubSeq(options, 1, Len(options) - 1))
         IN  IF Len(opt.choices) > 0 THEN SetKey(rest, opt.name, opt.choices[1].name) ELSE rest

\* JSON.stringify(selectedOptions): the entries in property order
JsonOptions(obj) ==
    LET es == ObjectValues(obj)
    IN  <<"{">> \o
        Concat([i \in 1..Len(es) |-> (IF i > 1 THEN <<",">> ELSE <<>>) \o
                                     JsonString(es[i].name) \o <<":">> \o JsonString(es[i].value)]) \o
        <<"}">>

\* the modifier the entry adds: option?.choices.find(...), 0 when nothing is found
ChoiceModifier(item, entry) ==
    LET o == {i \in 1..Len(item.options) : item.options[i].name = entry.name}
    IN  IF o = {} THEN 0
        ELSE LET choices == item.options[MinOf(o)].choices
                 c == {j \in 1..Len(choices) : choices[j].name = entry.value}
             IN  IF c = {} THEN 0 ELSE choices[MinOf(c)].priceModifier

RECURSIVE SumModifiers(_, _)
SumModifiers(item, entries) ==
    IF entries = <<>> THEN 0
    ELSE ChoiceModifier(item, Head(entries)) + SumModifiers(item, Tail(entries))

getPriceWithOptions(item, selectedOpts) == item.price + SumModifiers(item, ObjectValues(selectedOpts))

\* prev.findIndex matching on the id and the options only
existingIndexIgnoringNote(prev, item, note, optionsKey) ==
    FirstOf({i \in 1..Len(prev) :
                prev[i].id = item.id /\ JsonOptions(prev[i].selectedOptions) = optionsKey})

\* prev.findIndex(i => i.id === selectedItem.id && i.note === tempNote
\*                     && JSON.stringify(i.selectedOptions) === optionsKey), 0 for -1
existingIndex(prev, item, note, optionsKey) ==
    FirstOf({i \in 1..Len(prev) :
                /\ prev[i].id = item.id
                /\ prev[i].note = note
                /\ JsonOptions(prev[i].selectedOptions) = optionsKey})

\* the new line being the selected item itself instead of a copy of it
LineObjectShared(k) == k

\* the object of the new line: { ...selectedItem, ... } is an object of its own
LineObject(k) == 0

\* the line confirmAddToCart writes: the matching line with its quantity raised and
\* its price set, or the new line
AddedLine(prev, k, item, quantity, note, opts) ==
    LET at == existingIndex(prev, item, note, JsonOptions(opts))
    IN  IF at > 0
        THEN [prev[at] EXCEPT !.quantity = @ + quantity, !.price = getPriceWithOptions(item, opts)]
        ELSE [ref |-> LineObject(k), id |-> item.id, name |-> item.name,
              price |-> getPriceWithOptions(item, opts), quantity |-> quantity,
              note |-> note, selectedOptions |-> opts]

\* the cart the updater of confirmAddToCart returns
CartAfterAdd(prev, k, item, quantity, note, opts) ==
    LET at == existingIndex(prev, item, note, JsonOptions(opts))
        line == AddedLine(prev, k, item, quantity, note, opts)
    IN  IF at > 0 THEN [prev EXCEPT ![at] = line] ELSE Append(prev, line)

\* the menu after the fields of line are written: a write to a line object that is a
\* menu item is a write to the menu item
MenuAfterWrite(items, line) ==
    IF line.ref = 0 THEN items ELSE [items EXCEPT ![line.ref].price = line.price]

\* updateQuantity setting the new quantity without the test
updateQuantityUnguarded(prev, index, delta) ==
    [i \in 1..Len(prev) |->
        IF i = index THEN [prev[i] EXCEPT !.quantity = @ + delta, !.ref = 0] ELSE prev[i]]

\* the cart the updater of updateQuantity(index, delta) returns
updateQuantity(prev, index, delta) ==
    [i \in 1..Len(prev) |->
        IF i = index /\ prev[i].quantity + delta > 0
        THEN [prev[i] EXCEPT !.quantity = @ + delta, !.ref = 0]
        ELSE prev[i]]

\* removeFromCart(index): prev.filter((_, i) => i !== index)
removeFromCart(prev, index) ==
    [i \in 1..(Len(prev) - 1) |-> IF i < index THEN prev[i] ELSE prev[i + 1]]

\* a click on a menu card: openItemModal(item)
OpenItemModal(k) ==
    /\ ~loading /\ selectedItem = 0 /\ ~isCartOpen
    /\ k \in 1..Len(menu)
    /\ selectedItem' = k
    /\ tempQuantity' = 1
    /\ tempNote' = ""
    /\ tempSelectedOptions' = DefaultOptions(menu[k].options)
    /\ UNCHANGED <<settingsVars, loadVars, cartVars, formVars, orderVars>>
    /\ UNCHANGED nonAppVars

CloseItemModal ==
    /\ selectedItem # 0
    /\ selectedItem' = 0
    /\ UNCHANGED <<tempQuantity, tempNote, tempSelectedOptions>>
    /\ UNCHANGED <<settingsVars, loadVars, cartVars, formVars, orderVars>>
    /\ UNCHANGED nonAppVars

\* the option groups the modal lists, and the radio buttons of a group
ShownOptions == IF selectedItem = 0 THEN {} ELSE 1..Len(menu[selectedItem].options)
ShownChoices(o) == 1..Len(menu[selectedItem].options[o].choices)

\* a radio button of the modal: handleOptionChange(option.name, choice.name)
HandleOptionChange(o, c) ==
    /\ selectedItem # 0
    /\ o \in 1..Len(menu[selectedItem].options)
    /\ c \in 1..Len(menu[selectedItem].options[o].choices)
    /\ tempSelectedOptions' = SetKey(tempSelectedOptions, menu[selectedItem].options[o].name,
                                     menu[selectedItem].options[o].choices[c].name)
    /\ UNCHANGED <<selectedItem, tempQuantity, tempNote>>
    /\ UNCHANGED <<settingsVars, loadVars, cartVars, formVars, orderVars>>
    /\ UNCHANGED nonAppVars

\* the note field: setTempNote(e.target.value)
SetTempNote(note) ==
    /\ selectedItem # 0
    /\ tempNote' = note
    /\ UNCHANGED <<selectedItem, tempQuantity, tempSelectedOptions>>
    /\ UNCHANGED <<settingsVars, loadVars, cartVars, formVars, orderVars>>
    /\ UNCHANGED nonAppVars

\* the minus button of the modal: setTempQuantity(q => Math.max(1, q - 1))
TempQuantityMinus ==
    /\ selectedItem # 0
    /\ tempQuantity' = IF tempQuantity - 1 > 1 THEN tempQuantity - 1 ELSE 1
    /\ UNCHANGED <<selectedItem, tempNote, tempSelectedOptions>>
    /\ UNCHANGED <<settingsVars, loadVars, cartVars, formVars, orderVars>>
    /\ UNCHANGED nonAppVars

\* the plus button of the modal: setTempQuantity(q => q + 1)
TempQuantityPlus ==
    /\ selectedItem # 0
    /\ tempQuantity < MaxQty
    /\ tempQuantity' = tempQuantity + 1
    /\ UNCHANGED <<selectedItem, tempNote, tempSelectedOptions>>
    /\ UNCHANGED <<settingsVars, loadVars, cartVars, formVars, orderVars>>
    /\ UNCHANGED nonAppVars

\* resetModal: if (selectedItem) openItemModal(selectedItem)
ResetModal ==
    /\ selectedItem # 0
    /\ tempQuantity' = 1
    /\ tempNote' = ""
    /\ tempSelectedOptions' = DefaultOptions(menu[selectedItem].options)
    /\ UNCHANGED selectedItem
    /\ UNCHANGED <<settingsVars, loadVars, cartVars, formVars, orderVars>>
    /\ UNCHANGED nonAppVars

\* confirmAddToCart: the updater of setCart, then closeItemModal
ConfirmAddToCart ==
    /\ selectedItem # 0
    /\ LET item == menu[selectedItem]
           line == AddedLine(cart, selectedItem, item, tempQuantity, tempNote, tempSelectedOptions)
           next == CartAfterAdd(cart, selectedItem, item, tempQuantity, tempNote, tempSelectedOptions)
       IN  /\ line.quantity <= MaxQty
           /\ Len(next) <= MaxLines
           /\ cart' = next
           /\ menu' = MenuAfterWrite(menu, line)
    /\ selectedItem' = 0
    /\ UNCHANGED <<tempQuantity, tempNote, tempSelectedOptions>>
    /\ UNCHANGED <<loading, isCartOpen>>
    /\ UNCHANGED <<settingsVars, formVars, orderVars>>
    /\ UNCHANGED nonAppVars

\* the button of the sticky bar, shown when cart.length > 0 && !isCartOpen && !selectedItem:
\* setIsCartOpen(true)
OpenCart ==
    /\ Len(cart) > 0 /\ ~isCartOpen /\ selectedItem = 0
    /\ isCartOpen' = TRUE
    /\ UNCHANGED cart
    /\ UNCHANGED <<settingsVars, loadVars, modalVars, formVars, orderVars>>
    /\ UNCHANGED nonAppVars

\* the close button of the cart: setIsCartOpen(false)
CloseCart ==
    /\ isCartOpen /\ ~showConfirmModal
    /\ isCartOpen' = FALSE
    /\ UNCHANGED cart
    /\ UNCHANGED <<settingsVars, loadVars, modalVars, formVars, orderVars>>
    /\ UNCHANGED nonAppVars

\* the bin button of a cart line: removeFromCart(index)
RemoveFromCart(index) ==
    /\ isCartOpen /\ ~showConfirmModal
    /\ index \in 1..Len(cart)
    /\ cart' = removeFromCart(cart, index)
    /\ UNCHANGED isCartOpen
    /\ UNCHANGED <<settingsVars, loadVars, modalVars, formVars, orderVars>>
    /\ UNCHANGED nonAppVars

\* the minus button of a cart line:
\* item.quantity === 1 ? removeFromCart(index) : updateQuantity(index, -1)
MinusControl(index) ==
    /\ isCartOpen /\ ~showConfirmModal
    /\ index \in 1..Len(cart)
    /\ cart' = IF cart[index].quantity = 1 THEN removeFromCart(cart, index)
               ELSE updateQuantity(cart, index, -1)
    /\ UNCHANGED isCartOpen
    /\ UNCHANGED <<settingsVars, loadVars, modalVars, formVars, orderVars>>
    /\ UNCHANGED nonAppVars

\* the plus button of a cart line: updateQuantity(index, 1)
PlusControl(index) ==
    /\ isCartOpen /\ ~showConfirmModal
    /\ index \in 1..Len(cart)
    /\ cart[index].quantity < MaxQty
    /\ cart' = updateQuantity(cart, index, 1)
    /\ UNCHANGED isCartOpen
    /\ UNCHANGED <<settingsVars, loadVars, modalVars, formVars, orderVars>>
    /\ UNCHANGED nonAppVars

\* the App on the menu sheet, the customer filling the cart
InitCart ==
    /\ storage = NoStorage
    /\ FetchedFrom(MenuSheet)
    /\ AppMount
    /\ HdrIdle /\ GvIdle /\ ImgIdle

NextCart ==
    \/ LoadData
    \/ \E k \in 1..Len(menu) : OpenItemModal(k)
    \/ CloseItemModal
    \/ \E o \in ShownOptions : \E c \in ShownChoices(o) : HandleOptionChange(o, c)
    \/ \E note \in Notes : SetTempNote(note)
    \/ TempQuantityMinus
    \/ TempQuantityPlus
    \/ ResetModal
    \/ ConfirmAddToCart
    \/ OpenCart
    \/ CloseCart
    \/ \E index \in 1..Len(cart) : RemoveFromCart(index)
    \/ \E index \in 1..Len(cart) : MinusControl(index)
    \/ \E index \in 1..Len(cart) : PlusControl(index)

-----------------------------------------------------------------------------
(* App: the checkout form, sendToLine and handleOpenLine.  saveOrderToSheet    *)
(* is known by its call and by the fields of its result that the App reads.    *)

\* the most calls of saveOrderToSheet in one behaviour
MaxOrders == 2

\* what the customer may type, and the data URL of a compressed slip
Names == {"", "Kim"}
Phones == {"", "0812345678"}
SlipDataUrl == "data:image/jpeg;base64"

\* what saveOrderToSheet may resolve to, as far as the App reads it
SaveResults ==
    { [result |-> "success", orderNo |-> "SG-0001"],
      [result |-> "success", orderNo |-> "SG-0002"],
      [result |-> "success", orderNo |-> ""],
      [result |-> "error", orderNo |-> ""] }

\* the order id always taken from the result
OrderIdFromResult(res) == res.orderNo

\* let orderId = '(Offline)'; if (result.result === 'success' && result.orderNo) orderId = result.orderNo
OrderIdOf(res) ==
    IF res.result = "success" /\ res.orderNo # "" THEN res.orderNo ELSE "(Offline)"

\* generateLineMessage: displayOrderId = orderIdOverride || currentOrderId
DisplayOrderId(orderIdOverride) ==
    IF orderIdOverride # "" THEN orderIdOverride ELSE currentOrderId

\* the checkout form is on screen: the cart is open and not empty, and the
\* confirmation modal does not cover it
FormShown == isCartOpen /\ ~showConfirmModal /\ Len(cart) > 0

SetCustomerName(v) ==
    /\ FormShown
    /\ customerName' = v
    /\ UNCHANGED <<customerPhone, slipPreview>>
    /\ UNCHANGED <<settingsVars, loadVars, modalVars, cartVars, orderVars>>
    /\ UNCHANGED nonAppVars

SetCustomerPhone(v) ==
    /\ FormShown
    /\ customerPhone' = v
    /\ UNCHANGED <<customerName, slipPreview>>
    /\ UNCHANGED <<settingsVars, loadVars, modalVars, cartVars, orderVars>>
    /\ UNCHANGED nonAppVars

\* handleSlipChange with a file that compressImage accepts
HandleSlipChange ==
    /\ FormShown
    /\ slipPreview' = SlipDataUrl
    /\ UNCHANGED <<customerName, customerPhone>>
    /\ UNCHANGED <<settingsVars, loadVars, modalVars, cartVars, orderVars>>
    /\ UNCHANGED nonAppVars

\* removeSlip, the button over the slip preview
RemoveSlip ==
    /\ FormShown
    /\ slipPreview # ""
    /\ slipPreview' = ""
    /\ UNCHANGED <<customerName, customerPhone>>
    /\ UNCHANGED <<settingsVars, loadVars, modalVars, cartVars, orderVars>>
    /\ UNCHANGED nonAppVars

\* sendToLine, the button of the cart footer
SendToLine ==
    /\ FormShown
    /\ IF customerName = "" \/ customerPhone = "" \/ Len(cart) = 0
       THEN lastAlert' = "fill" /\ UNCHANGED showConfirmModal
       ELSE IF slipPreview = ""
       THEN lastAlert' = "slip" /\ UNCHANGED showConfirmModal
       ELSE showConfirmModal' = TRUE /\ UNCHANGED lastAlert
    /\ UNCHANGED <<isSavingOrder, currentOrderId, orders, closeTimers>>
    /\ UNCHANGED <<settingsVars, loadVars, modalVars, cartVars, formVars>>
    /\ UNCHANGED nonAppVars

\* the X of the confirmation modal: setShowConfirmModal(false)
CloseConfirmModal ==
    /\ showConfirmModal
    /\ showConfirmModal' = FALSE
    /\ UNCHANGED <<isSavingOrder, currentOrderId, orders, closeTimers, lastAlert>>
    /\ UNCHANGED <<settingsVars, loadVars, modalVars, cartVars, formVars>>
    /\ UNCHANGED nonAppVars

\* the button of the modal: disabled={isSavingOrder}
OpenLineEnabled == showConfirmModal /\ ~isSavingOrder

\* handleOpenLine up to its await: setIsSavingOrder(true) and the call
\* saveOrderToSheet({ customerName, customerPhone, items: cart, total, location })
HandleOpenLine ==
    /\ OpenLineEnabled
    /\ Len(orders) < MaxOrders
    /\ isSavingOrder' = TRUE
    /\ orders' = Append(orders, [outcome |-> "pending", orderNo |-> "", redirect |-> "none"])
    /\ UNCHANGED <<showConfirmModal, currentOrderId, closeTimers, lastAlert>>
    /\ UNCHANGED <<settingsVars, loadVars, modalVars, cartVars, formVars>>
    /\ UNCHANGED nonAppVars

\* the outcome recorded for a result
OutcomeOf(res) ==
    IF res.result # "success" THEN "error" ELSE IF res.orderNo # "" THEN "saved" ELSE "unnumbered"

\* handleOpenLine after its await, the call n having resolved to res: the order id,
\* the redirect, the timer that closes the modal, and the finally block
SaveReturns(n, res) ==
    /\ n \in 1..Len(orders)
    /\ orders[n].outcome = "pending"
    /\ orders' = [orders EXCEPT ![n] = [outcome |-> OutcomeOf(res),
                                        orderNo |-> res.orderNo,
                                        redirect |-> DisplayOrderId(OrderIdOf(res))]]
    /\ currentOrderId' = IF res.result = "success" /\ res.orderNo # "" THEN res.orderNo
                         ELSE currentOrderId
    /\ closeTimers' = closeTimers + 1
    /\ isSavingOrder' = FALSE
    /\ UNCHANGED <<showConfirmModal, lastAlert>>
    /\ UNCHANGED <<settingsVars, loadVars, modalVars, cartVars, formVars>>
    /\ UNCHANGED nonAppVars

\* handleOpenLine after its await, the call n having rejected: catch and finally
SaveThrows(n) ==
    /\ n \in 1..Len(orders)
    /\ orders[n].outcome = "pending"
    /\ orders' = [orders EXCEPT ![n].outcome = "threw"]
    /\ lastAlert' = "save"
    /\ isSavingOrder' = FALSE
    /\ UNCHANGED <<showConfirmModal, currentOrderId, closeTimers>>
    /\ UNCHANGED <<settingsVars, loadVars, modalVars, cartVars, formVars>>
    /\ UNCHANGED nonAppVars

\* the call of saveOrderToSheet in flight settles, one way or the other
SaveSettles ==
    \E n \in 1..Len(orders) : SaveThrows(n) \/ \E res \in SaveResults : SaveReturns(n, res)

\* setTimeout(() => setShowConfirmModal(false), 2000) fires
CloseTimerFires ==
    /\ closeTimers > 0
    /\ closeTimers' = closeTimers - 1
    /\ showConfirmModal' = FALSE
    /\ UNCHANGED <<isSavingOrder, currentOrderId, orders, lastAlert>>
    /\ UNCHANGED <<settingsVars, loadVars, modalVars, cartVars, formVars>>
    /\ UNCHANGED nonAppVars

\* the App on the menu sheet, one B in the cart and the cart open
InitOrder ==
    /\ storage = NoStorage
    /\ FetchedFrom(MenuSheet)
    /\ localLogo = Undefined /\ localQr = Undefined /\ localLineId = Undefined
    /\ sheetConfig = result.config
    /\ loading = FALSE
    /\ menu = result.items
    /\ cart = CartAfterAdd(<<>>, 2, result.items[2], 1, "", <<>>)
    /\ isCartOpen = TRUE
    /\ selectedItem = 0
    /\ tempQuantity = 1
    /\ tempNote = ""
    /\ tempSelectedOptions = <<>>
    /\ customerName = ""
    /\ customerPhone = ""
    /\ slipPreview = ""
    /\ showConfirmModal = FALSE
    /\ isSavingOrder = FALSE
    /\ currentOrderId = ""
    /\ orders = <<>>
    /\ closeTimers = 0
    /\ lastAlert = "none"
    /\ HdrIdle /\ GvIdle /\ ImgIdle

NextOrder ==
    \/ \E v \in Names : SetCustomerName(v)
    \/ \E v \in Phones : SetCustomerPhone(v)
    \/ HandleSlipChange
    \/ RemoveSlip
    \/ \E index \in 1..Len(cart) : RemoveFromCart(index)
    \/ SendToLine
    \/ CloseConfirmModal
    \/ HandleOpenLine
    \/ \E n \in 1..Len(orders), res \in SaveResults : SaveReturns(n, res)
    \/ \E n \in 1..Len(orders) : SaveThrows(n)
    \/ CloseTimerFires

-----------------------------------------------------------------------------
(* App: the first render, the fetch behind it and loadData *)

\* the rows a sheet of the run behind the first render may hold
LoadRows == AppRows

\* the steps of the fetch and of loadData, which go on by themselves
LoadProgress ==
    \/ FetchFails
    \/ FetchResponds
    \/ CheckResponse
    \/ DecodeFails
    \/ DecodeOk
    \/ \E row \in LoadRows : ProcessRow(row)
    \/ NextSheet
    \/ Return
    \/ Catch
    \/ LoadData

\* the fetch, loadData, and the customer opening and closing an item
NextLoad ==
    \/ FetchFails
    \/ FetchResponds
    \/ CheckResponse
    \/ DecodeFails
    \/ DecodeOk
    \/ \E row \in LoadRows : ProcessRow(row)
    \/ NextSheet
    \/ Return
    \/ Catch
    \/ LoadData
    \/ \E k \in 1..Len(menu) : OpenItemModal(k)
    \/ CloseItemModal

-----------------------------------------------------------------------------
(* Specifications *)

\* one run of fetchMenuFromSheet
Init == FoldInit /\ HdrIdle /\ GvIdle /\ ImgIdle /\ AppIdle

Spec == Init /\ [][Next]_vars

\* header detection on one sheet
InitHeader == FoldInit /\ HdrInit /\ GvIdle /\ ImgIdle /\ AppIdle

SpecHeader == InitHeader /\ [][HdrNext]_vars

\* one call of getValue
InitGetValue == FoldInit /\ HdrIdle /\ GvInit /\ ImgIdle /\ AppIdle

SpecGetValue == InitGetValue /\ [][GvNext]_vars

\* one call of processImageUrl
InitImageUrl == FoldInit /\ HdrIdle /\ GvIdle /\ ImgInit /\ AppIdle

SpecImageUrl == InitImageUrl /\ [][ImgNext]_vars

\* one run over the rows with or without a price and an image
SpecDefaults == Init /\ [][NextDefaults]_vars

\* the settings the App shows
SpecDisplay == InitDisplay /\ [][NextDisplay]_vars

\* the item modal and the cart
SpecCart == InitCart /\ [][NextCart]_vars

\* the first render and the load behind it
SpecLoad == Init /\ [][NextLoad]_vars

\* the same, the fetch settling and its continuations being run
SpecLoadFair == SpecLoad /\ WF_vars(LoadProgress)

\* the checkout
SpecOrder == InitOrder /\ [][NextOrder]_vars

\* the checkout, every call of saveOrderToSheet settling in the end
SpecOrderFair == SpecOrder /\ WF_vars(SaveSettles)

\* one run over the option rows
SpecOptions == Init /\ [][NextOptions]_vars

\* one run over the settings rows
SpecSettings == Init /\ [][NextSettings]_vars

\* one run over the rows that create items
SpecSpicy == Init /\ [][NextSpicy]_vars

-----------------------------------------------------------------------------
(* Claims about fetchMenuFromSheet, checked under Spec *)

\* the response carries an HTML content-type
HtmlContentType == response.contentType.t = "s" /\ Includes(response.contentType.s, <<"t","e","x","t","/","h","t","m","l">>)

\* acquisition failed: no response, an HTML content-type, a non-OK status, or a decode error
AcquisitionFailed ==
    \/ thrown \in {"network", "decode"}
    \/ HtmlContentType
    \/ ~response.ok

\* C1: fetchMenuFromSheet never rejects, and after every failure of acquisition
\* (network error, HTML content-type, non-OK status, decode error) the promise
\* resolves to exactly {items: [], config: {}}.
C1_EmptyResultOnFailure ==
    /\ settled # "rejected"
    /\ (pc = "done" /\ AcquisitionFailed) => (settled = "resolved" /\ result = EmptyResult)

\* C1 witness: an HTML page answered with status 200 has been turned into the empty result
C1_Witness ==
    /\ pc = "done"
    /\ HtmlContentType /\ response.ok
    /\ thrown = "PERMISSION_DENIED"
    /\ result = EmptyResult

\* C2: every item of the result has a non-empty name, whatever rows were folded in.
C2_NamesNonEmpty ==
    pc = "done" => \A i \in 1..Len(result.items) : result.items[i].name # <<>>

\* the row reaches menu item extraction with a name: not a settings row, name cell truthy
NamesAnItem(row) ==
    /\ ~IsConfigCategory(Resolved[row].category)
    /\ Truthy(Resolved[row].rawName)

ItemNames(items) == {items[i].name : i \in 1..Len(items)}

\* C3: items are merged by exact, case-sensitive name: no two items share a name,
\* the row just folded has its item under its resolved name, and the result holds
\* exactly the accumulated items, one per name.
C3_OneItemPerName ==
    /\ \A i, j \in 1..Len(groupedItems) :
          i # j => groupedItems[i].name # groupedItems[j].name
    /\ (lastRow # NoRow /\ NamesAnItem(lastRow))
          => Resolved[lastRow].name \in ItemNames(groupedItems)
    /\ (pc = "done" /\ thrown = "none")
          => /\ ItemNames(result.items) = ItemNames(groupedItems)
             /\ Len(result.items) = Cardinality(ItemNames(groupedItems))

\* C4: no item holds two option groups with the same name.
C4_UniqueGroupNames ==
    \A n \in 1..Len(groupedItems) :
        \A i, j \in 1..Len(groupedItems[n].options) :
            i # j => groupedItems[n].options[i].name # groupedItems[n].options[j].name

\* C5: no option group holds two choices with the same name.
C5_UniqueChoiceNames ==
    \A n \in 1..Len(groupedItems) :
        \A g \in 1..Len(groupedItems[n].options) :
            LET ch == groupedItems[n].options[g].choices
            IN  \A i, j \in 1..Len(ch) : i # j => ch[i].name # ch[j].name

\* options b extend options a: every group of a is in b at the same position under
\* the same name, and so is every choice, with the same price modifier
OptionsExtend(a, b) ==
    /\ Len(a) <= Len(b)
    /\ \A g \in 1..Len(a) :
          /\ b[g].name = a[g].name
          /\ Len(a[g].choices) <= Len(b[g].choices)
          /\ \A c \in 1..Len(a[g].choices) : b[g].choices[c] = a[g].choices[c]

\* C6: option data only grows: across every step, each item keeps its place and
\* name, and each of its option groups and choices stays where it was, with the
\* same name and the same price modifier.
C6_OptionsMonotone ==
    [][ \A n \in 1..Len(groupedItems) :
            /\ n <= Len(groupedItems')
            /\ groupedItems'[n].name = groupedItems[n].name
            /\ OptionsExtend(groupedItems[n].options, groupedItems'[n].options) ]_vars

\* C6 witness: an item whose options grew twice: two groups, one of them with two choices
C6_Witness ==
    \E n \in 1..Len(groupedItems) :
        /\ Len(groupedItems[n].options) >= 2
        /\ \E g \in 1..Len(groupedItems[n].options) :
              Len(groupedItems[n].options[g].choices) >= 2

\* the row's resolved category names a settings row
SettingsCategory(row) ==
    LET c == ToLowerCase(Resolved[row].category)
    IN  \/ Includes(c, <<"s","e","t","t","i","n","g">>)
        \/ Includes(c, <<"c","o","n","f","i","g">>)
        \/ Includes(c, <<"s","y","s","t","e","m">>)
        \/ Includes(c, <<"u0E15","u0E31","u0E49","u0E07","u0E04","u0E48","u0E32">>)

\* the step folds a row
FoldsRow == nRows' = nRows + 1

\* C7: a settings row never creates or changes a menu item, and a row that
\* creates or changes a menu item never changes the config.
C7_ClassificationExclusive ==
    [][ FoldsRow =>
          /\ SettingsCategory(lastRow') => groupedItems' = groupedItems
          /\ groupedItems' # groupedItems => config' = config ]_vars

\* C7 witness: a settings row that carries an item-like name and a price was folded
\* into a run that already holds an item
C7_Witness ==
    /\ lastRow # NoRow
    /\ SettingsCategory(lastRow)
    /\ Resolved[lastRow].name = <<"A">>
    /\ Truthy(Resolved[lastRow].price)
    /\ Len(groupedItems) > 0

\* C8: a row for which no name resolves leaves the item map and the config unchanged.
C8_NamelessRowNoEffect ==
    [][ (FoldsRow /\ Resolved[lastRow'].rawName = Undefined)
          => (groupedItems' = groupedItems /\ config' = config) ]_vars

\* C8 witness: a nameless settings row with an image was folded after an item row
C8_Witness ==
    /\ lastRow # NoRow
    /\ Resolved[lastRow].rawName = Undefined
    /\ SettingsCategory(lastRow)
    /\ Resolved[lastRow].processedImg # <<>>
    /\ Len(groupedItems) > 0

-----------------------------------------------------------------------------
(* Claims about header detection, checked under SpecHeader *)

\* rows (0-based) inside the scan window that hold at least 2 keywords
HeaderCandidates ==
    {i \in 0..(Len(sheetRows) - 1) : i < 10 /\ matchCount(sheetRows[i + 1]) >= 2}

\* C9: header detection returns the first row, among the first 10, whose lowercased
\* stringified cells contain at least 2 keywords, 0 when there is none, and never
\* an index of 10 or more.
C9_FirstCandidateInWindow ==
    hdrPc = "done" =>
        /\ headerRowIndex = IF HeaderCandidates = {} THEN 0 ELSE MinOf(HeaderCandidates)
        /\ headerRowIndex < 10

\* C9 witness: the only rows with 2 keywords lie at index 10 or beyond, and the scan gave 0
C9_Witness ==
    /\ hdrPc = "done"
    /\ headerRowIndex = 0
    /\ HeaderCandidates = {}
    /\ Len(sheetRows) > 10
    /\ \E i \in 11..Len(sheetRows) : matchCount(sheetRows[i]) >= 2

\* the sheet has a true header row at an index 0..9 with at least 2 keyword matches
HasTrueHeader ==
    /\ trueHeader \in 0..9
    /\ matchCount(sheetRows[trueHeader + 1]) >= 2

\* C10 as stated: whatever rows precede the true header, detection selects it.
C10_SelectsTrueHeader ==
    (hdrPc = "done" /\ HasTrueHeader) => headerRowIndex = trueHeader

\* C10 amended: detection selects the true header when no row above it holds
\* 2 or more keyword matches.
C10_SelectsTrueHeaderUnlessEarlierMatch ==
    (/\ hdrPc = "done"
     /\ HasTrueHeader
     /\ \A i \in 1..trueHeader : matchCount(sheetRows[i]) < 2)
        => headerRowIndex = trueHeader

\* C10 witness: the header at index 9, below a note row with a single keyword, was selected
C10_Witness ==
    /\ hdrPc = "done"
    /\ trueHeader = 9
    /\ HasTrueHeader
    /\ \E i \in 1..9 : matchCount(sheetRows[i]) = 1
    /\ headerRowIndex = 9

-----------------------------------------------------------------------------
(* Claims about getValue, checked under SpecGetValue *)

\* the synonyms of the field the header equals, ignoring case
SynonymsOf(header, field) ==
    {s \in 1..Len(GvKeys(field)) : ToLowerCase(header) = ToLowerCase(GvKeys(field)[s])}

\* columns of gvRow whose header equals a synonym of gvField, ignoring case
GvExactCols == {i \in 1..Len(gvRow) : SynonymsOf(gvRow[i].k, gvField) # {}}

\* columns of gvRow whose header contains a synonym of gvField and no exclusion string
GvPartialCols ==
    {i \in 1..Len(gvRow) :
        /\ \E s \in 1..Len(GvKeys(gvField)) :
              Includes(ToLowerCase(gvRow[i].k), ToLowerCase(GvKeys(gvField)[s]))
        /\ \A e \in 1..Len(GvExclude(gvField)) :
              ~Includes(ToLowerCase(gvRow[i].k), ToLowerCase(GvExclude(gvField)[e]))}

\* C11: if a column header equals a synonym of the field ignoring case, getValue
\* returns the value of an exactly matching column, even when an earlier column
\* matches only partially and whatever the exclusion list says; it returns
\* undefined only when no column qualifies under either rule.
C11_ExactBeatsPartial ==
    gvPc = "returned" =>
        /\ GvExactCols # {} => \E i \in GvExactCols : gvResult = gvRow[i].v
        /\ gvResult = Undefined <=> (GvExactCols = {} /\ GvPartialCols = {})

\* an exactly matching column is returned though an earlier column matches partially
C11_Witness ==
    /\ gvPc = "returned"
    /\ \E i \in GvExactCols, j \in GvPartialCols \ GvExactCols :
          j < i /\ gvResult = gvRow[i].v /\ gvResult # gvRow[j].v

\* several columns exactly match different synonyms of the field
GvSeveralSynonyms ==
    \E i, j \in GvExactCols : SynonymsOf(gvRow[i].k, gvField) # SynonymsOf(gvRow[j].k, gvField)

\* the earliest synonym of the field that some column header equals
GvFirstSynonym ==
    MinOf(UNION {SynonymsOf(gvRow[i].k, gvField) : i \in GvExactCols})

\* C12: when several columns exactly match different synonyms of the field,
\* getValue returns the column matched by the first synonym of the synonym list,
\* whatever the order of the columns.
C12_FirstSynonymWins ==
    (gvPc = "returned" /\ GvSeveralSynonyms) =>
        \E i \in GvExactCols :
            GvFirstSynonym \in SynonymsOf(gvRow[i].k, gvField) /\ gvResult = gvRow[i].v

\* C12, as the code has it: when several columns exactly match different synonyms
\* of the field, getValue returns the first of these columns in column order,
\* whatever the order of the synonyms.
C12_FirstColumnWins ==
    (gvPc = "returned" /\ GvSeveralSynonyms) => gvResult = gvRow[MinOf(GvExactCols)].v

\* the first exactly matching column matches a later synonym than another column does
C12_Witness ==
    /\ gvPc = "returned"
    /\ GvSeveralSynonyms
    /\ GvFirstSynonym \notin SynonymsOf(gvRow[MinOf(GvExactCols)].k, gvField)
    /\ gvResult = gvRow[MinOf(GvExactCols)].v

-----------------------------------------------------------------------------
(* Claims about item reuse, checked under Spec *)

\* the step folds a menu row whose resolved name is the name of item n
FoldsRowOfItem(n) ==
    /\ FoldsRow
    /\ ~SettingsCategory(lastRow')
    /\ Resolved[lastRow'].rawName # Undefined
    /\ Resolved[lastRow'].name = groupedItems[n].name

\* C13: a row whose name matches an item created earlier leaves the item's id,
\* category, price, description, image and isSpicy as they were and creates no
\* item; it can only add option groups or choices to the item.
C13_ReuseKeepsItem ==
    [][ \A n \in 1..Len(groupedItems) :
            FoldsRowOfItem(n) =>
                /\ Len(groupedItems') = Len(groupedItems)
                /\ groupedItems'[n].id = groupedItems[n].id
                /\ groupedItems'[n].category = groupedItems[n].category
                /\ groupedItems'[n].price = groupedItems[n].price
                /\ groupedItems'[n].description = groupedItems[n].description
                /\ groupedItems'[n].image = groupedItems[n].image
                /\ groupedItems'[n].isSpicy = groupedItems[n].isSpicy
                /\ OptionsExtend(groupedItems[n].options, groupedItems'[n].options) ]_vars

\* C13 witness: the item row A (Main, 120) followed by a row-based row and a
\* comma-separated row of the same name: one item, its fields those of the
\* first row, carrying the group of each encoding
C13_Witness ==
    /\ Len(groupedItems) = 1
    /\ groupedItems[1].name = <<"A">>
    /\ groupedItems[1].price = 120
    /\ groupedItems[1].category = <<"M","a","i","n">>
    /\ Len(groupedItems[1].options) = 2
    /\ groupedItems[1].options[1].choices = <<[name |-> <<"y">>, priceModifier |-> 2]>>
    /\ groupedItems[1].options[2].name = <<"H">>

-----------------------------------------------------------------------------
(* Claims about the option encodings, checked under SpecOptions.  The rows   *)
(* of these runs name their columns exactly, so a field is read off the     *)
(* column of that header.                                                    *)

\* the cell of the row under the header, undefined if the row has none
CellOf(row, header) ==
    LET hit == {i \in 1..Len(row) : row[i].k = header}
    IN  IF hit = {} THEN Undefined ELSE row[MinOf(hit)].v

\* the trimmed text of a cell, empty for a blank cell
TextOf(cell) == IF cell = Undefined THEN <<>> ELSE Trim(StringOf(cell))

RowName(row) == TextOf(CellOf(row, cName))
RowGroup(row) == TextOf(CellOf(row, cOptGroup))
RowChoice(row) == TextOf(CellOf(row, cOptName))
RowModifier(row) == NumberOrZero(CellOf(row, cPriceMod))

\* group and choice names both resolve to non-empty trimmed strings
RowBasedRow(row) == RowGroup(row) # <<>> /\ RowChoice(row) # <<>>

\* two rows carry the same row-based option: same item, group name and choice name
SameOption(r1, r2) ==
    /\ RowBasedRow(r1) /\ RowBasedRow(r2)
    /\ RowName(r1) = RowName(r2)
    /\ RowGroup(r1) = RowGroup(r2)
    /\ RowChoice(r1) = RowChoice(r2)

\* the choices named cname in the groups named gname of the items named iname
ChoicesNamed(iname, gname, cname) ==
    UNION { UNION { { <<n, g, c>> : c \in {c \in 1..Len(groupedItems[n].options[g].choices) :
                                              groupedItems[n].options[g].choices[c].name = cname} } :
                    g \in {g \in 1..Len(groupedItems[n].options) :
                              groupedItems[n].options[g].name = gname} } :
            n \in {n \in 1..Len(groupedItems) : groupedItems[n].name = iname} }

\* the tokens of a comma-separated choices cell: split on commas, trimmed, empties dropped
CommaTokens(cell) ==
    LET parts == Split(StringOf(cell), ",")
    IN  SelectSeq([i \in 1..Len(parts) |-> Trim(parts[i])], LAMBDA s : s # <<>>)

\* the row carries the comma-separated fields: a header and a choices cell
HasCommaFields(row) == CellOf(row, cOptHeader) # Undefined /\ CellOf(row, cOptChoices) # Undefined

\* the row names the choice of the row-based row r, in either encoding
NamesChoiceOf(row, r) ==
    \/ SameOption(row, r)
    \/ /\ ~RowBasedRow(row) /\ HasCommaFields(row)
       /\ RowName(row) = RowName(r)
       /\ StringOf(CellOf(row, cOptHeader)) = RowGroup(r)
       /\ \E t \in 1..Len(CommaTokens(CellOf(row, cOptChoices))) :
              CommaTokens(CellOf(row, cOptChoices))[t] = RowChoice(r)

\* the modifier a row gives its choice: its own in the row-based encoding, 0 in the other
ModifierOf(row) == IF RowBasedRow(row) THEN RowModifier(row) ELSE 0

\* C14: once the same row-based option (same item, group name and choice name)
\* was folded a second time, with any price modifier, the group holds exactly
\* one choice of that name, with the modifier of the first row that named it.
C14_SecondFoldKeepsOneChoice ==
    \A i, j \in 1..Len(rowLog) :
        (i < j /\ SameOption(rowLog[i], rowLog[j]))
        => LET hits == ChoicesNamed(RowName(rowLog[i]), RowGroup(rowLog[i]), RowChoice(rowLog[i]))
               first == MinOf({k \in 1..i : NamesChoiceOf(rowLog[k], rowLog[i])})
           IN  /\ Cardinality(hits) = 1
               /\ \A h \in hits :
                     groupedItems[h[1]].options[h[2]].choices[h[3]].priceModifier
                         = ModifierOf(rowLog[first])

\* the log is a run of row-based rows of one item and one group, their choice
\* names distinct
RowBasedRun ==
    /\ rowLog # <<>>
    /\ \A i \in 1..Len(rowLog) :
          /\ RowBasedRow(rowLog[i])
          /\ RowName(rowLog[i]) = RowName(rowLog[1])
          /\ RowGroup(rowLog[i]) = RowGroup(rowLog[1])
    /\ \A i, j \in 1..Len(rowLog) : i # j => RowChoice(rowLog[i]) # RowChoice(rowLog[j])

\* C15: successive row-based rows of the same item and the same group with
\* distinct choice names yield one item with one option group whose choices are
\* those of the rows, in row order, each with the numeric modifier of its own
\* row (0 when absent or not coercible).
C15_RowBasedRunInOrder ==
    RowBasedRun =>
        /\ Len(groupedItems) = 1
        /\ groupedItems[1].name = RowName(rowLog[1])
        /\ groupedItems[1].options =
              << [ name |-> RowGroup(rowLog[1]),
                   choices |-> [i \in 1..Len(rowLog) |->
                                   [name |-> RowChoice(rowLog[i]),
                                    priceModifier |-> RowModifier(rowLog[i])]] ] >>

\* the options item n had before the step, none if the step created it
OptionsBefore(n) == IF n <= Len(groupedItems) THEN groupedItems[n].options ELSE <<>>

\* every group or choice in new that old lacks is the choice cname of the group gname
AddsOnly(old, new, gname, cname) ==
    /\ OptionsExtend(old, new)
    /\ \A g \in 1..Len(new) : \A c \in 1..Len(new[g].choices) :
          (g > Len(old) \/ c > Len(old[g].choices))
              => (new[g].name = gname /\ new[g].choices[c].name = cname)
    /\ \A g \in 1..Len(new) : g > Len(old) => new[g].name = gname

\* C16: for a single row the two encodings are exclusive: when the group and
\* choice names both resolve to non-empty trimmed strings, the row adds nothing
\* but its row-based choice (its comma-separated fields are ignored); in every
\* other case the comma-separated fields are used: the item then holds the
\* group of the header with every token of the choices cell.
C16_EncodingsExclusive ==
    [][ FoldsRow =>
          \A n \in 1..Len(groupedItems') :
              groupedItems'[n].name = RowName(lastRow') =>
                  IF RowBasedRow(lastRow')
                  THEN AddsOnly(OptionsBefore(n), groupedItems'[n].options,
                                RowGroup(lastRow'), RowChoice(lastRow'))
                  ELSE HasCommaFields(lastRow') =>
                          LET toks == CommaTokens(CellOf(lastRow', cOptChoices))
                              opts == groupedItems'[n].options
                          IN  toks # <<>> =>
                                \E g \in 1..Len(opts) :
                                    /\ opts[g].name = StringOf(CellOf(lastRow', cOptHeader))
                                    /\ \A t \in 1..Len(toks) :
                                          \E c \in 1..Len(opts[g].choices) :
                                              opts[g].choices[c].name = toks[t] ]_vars

\* the names of a sequence of choices
ChoiceNames(choices) == {choices[c].name : c \in 1..Len(choices)}

\* new is old with the tokens old lacks by name appended, each once and with
\* priceModifier 0, in the order of the tokens
MergedInto(old, new, toks) ==
    /\ Len(old) <= Len(new)
    /\ \A c \in 1..Len(old) : new[c] = old[c]
    /\ \A t \in 1..Len(toks) : toks[t] \in ChoiceNames(new)
    /\ \A c \in (Len(old) + 1)..Len(new) :
          /\ new[c].priceModifier = 0
          /\ new[c].name \notin ChoiceNames(old)
          /\ \E t \in 1..Len(toks) : toks[t] = new[c].name
          /\ \A d \in (Len(old) + 1)..Len(new) :
                c < d => /\ new[c].name # new[d].name
                         /\ MinOf({t \in 1..Len(toks) : toks[t] = new[c].name})
                               < MinOf({t \in 1..Len(toks) : toks[t] = new[d].name})

\* C17: where the comma-separated encoding applies, the choices cell is split on
\* commas, each token trimmed and the empty ones dropped; every resulting choice
\* has priceModifier 0; an existing group of the same name gains only the
\* choices it lacks by name, otherwise a new group is created; a cell with no
\* non-empty token changes nothing.
C17_CommaEncoding ==
    [][ (FoldsRow /\ ~RowBasedRow(lastRow') /\ HasCommaFields(lastRow')) =>
          \A n \in 1..Len(groupedItems') :
              groupedItems'[n].name = RowName(lastRow') =>
                  LET toks == CommaTokens(CellOf(lastRow', cOptChoices))
                      header == StringOf(CellOf(lastRow', cOptHeader))
                      old == OptionsBefore(n)
                      new == groupedItems'[n].options
                      same == {g \in 1..Len(old) : old[g].name = header}
                  IN  IF toks = <<>> THEN new = old
                      ELSE IF same # {}
                      THEN /\ Len(new) = Len(old)
                           /\ \A g \in 1..Len(old) :
                                 IF g = MinOf(same)
                                 THEN new[g].name = header
                                      /\ MergedInto(old[g].choices, new[g].choices, toks)
                                 ELSE new[g] = old[g]
                      ELSE new = Append(old, [name |-> header,
                                              choices |-> [t \in 1..Len(toks) |->
                                                  [name |-> toks[t], priceModifier |-> 0]]]) ]_vars

-----------------------------------------------------------------------------
(* Claims about the configuration rows, checked under SpecSettings.  The    *)
(* rows of these runs name their columns exactly.                            *)

ConfigKeys == {"logoUrl", "qrCodeUrl", "lineOaId"}

\* the lower-cased name of a settings row
SettingName(row) == ToLowerCase(RowName(row))

\* the name of the row matches the key
MatchesKey(row, key) ==
    CASE key = "logoUrl" -> Includes(SettingName(row), <<"l","o","g","o">>)
      [] key = "qrCodeUrl" -> Includes(SettingName(row), <<"q","r">>) \/ Includes(SettingName(row), <<"p","a","y","m","e","n","t">>)
      [] key = "lineOaId" -> Includes(SettingName(row), <<"l","i","n","e">>)

\* the name of the row selects the key: logo before qr before line
SelectsKey(row, key) ==
    CASE key = "logoUrl" -> MatchesKey(row, "logoUrl")
      [] key = "qrCodeUrl" -> MatchesKey(row, "qrCodeUrl") /\ ~MatchesKey(row, "logoUrl")
      [] key = "lineOaId" -> /\ MatchesKey(row, "lineOaId")
                             /\ ~MatchesKey(row, "logoUrl") /\ ~MatchesKey(row, "qrCodeUrl")

\* the image of a row as the callback keeps it: '' for a blank cell
ImageOf(row) ==
    IF CellOf(row, cImage) = Undefined THEN <<>> ELSE processImageUrl(StringOf(CellOf(row, cImage)))

\* the cell a Line row takes its id from: the image, else the Price cell, else
\* the Description cell; the empty string if there is none
LineSource(row) ==
    IF ImageOf(row) # <<>> THEN Str(ImageOf(row))
    ELSE IF Truthy(CellOf(row, cPrice)) THEN CellOf(row, cPrice)
    ELSE IF Truthy(CellOf(row, cDescription)) THEN CellOf(row, cDescription)
    ELSE Str(<<>>)

\* the value a row carries for a key: its image, or its Line id
ValueFor(row, key) ==
    IF key = "lineOaId" THEN Str(extractLineId(LineSource(row))) ELSE Str(ImageOf(row))

\* a finished run that read the workbook
Returned == pc = "done" /\ thrown = "none"

\* C18: for each of the config keys logo, qr and line, the returned config value
\* is the one of the last configuration row whose name matches the key, an
\* empty value included.
C18_LastRowWins ==
    Returned =>
        \A key \in ConfigKeys :
            LET hits == {i \in 1..Len(rowLog) : MatchesKey(rowLog[i], key)}
            IN  hits # {} => result.config[key] = ValueFor(rowLog[MaxOf(hits)], key)

\* the row writes the key: its name selects the key and, for line, its value is not empty
WritesKey(row, key) ==
    SelectsKey(row, key) /\ (key = "lineOaId" => Truthy(LineSource(row)))

\* C18, as the code has it: for logo and qr the returned value is the one of the
\* last row whose name selects the key (logo before qr before line), an empty
\* image included; for line it is the one of the last such row whose value is
\* not empty; a key no row writes is absent.
C18_LastWriteWins ==
    Returned =>
        \A key \in ConfigKeys :
            LET hits == {i \in 1..Len(rowLog) : WritesKey(rowLog[i], key)}
            IN  IF hits = {} THEN result.config[key] = Undefined
                ELSE result.config[key] = ValueFor(rowLog[MaxOf(hits)], key)

\* C18 witness: a Line row with a value, then a Line row without one, then a
\* Logo row without image: the Line id of the first row and the empty logo are returned
C18_Witness ==
    /\ Returned
    /\ Len(rowLog) = 3
    /\ WritesKey(rowLog[1], "lineOaId")
    /\ SelectsKey(rowLog[2], "lineOaId") /\ ~WritesKey(rowLog[2], "lineOaId")
    /\ SelectsKey(rowLog[3], "logoUrl")
    /\ result.config.lineOaId = Str(<<"@","s","e","o","u","l","g","o","o","d">>)
    /\ result.config.logoUrl = Str(<<>>)

\* the text after the final '/' of s, s itself if it has none
AfterLastSlash(s) ==
    LET sl == {i \in 1..Len(s) : s[i] = "/"}
    IN  IF sl = {} THEN s ELSE SubSeq(s, MaxOf(sl) + 1, Len(s))

\* the text of s up to its first '?'
UpToQuestion(s) ==
    LET q == {i \in 1..Len(s) : s[i] = "?"}
    IN  IF q = {} THEN s ELSE SubSeq(s, 1, MinOf(q) - 1)

\* a Line value reduced: trimmed, and a line.me link cut down to its last segment
ReducedLine(v) ==
    IF Includes(Trim(v), <<"l","i","n","e",".","m","e">>) THEN UpToQuestion(AfterLastSlash(Trim(v))) ELSE Trim(v)

\* the text a Line row offers: the trimmed image when not empty, else the
\* Price cell, else the Description cell
LineText(row) ==
    IF TextOf(CellOf(row, cImage)) # <<>> THEN TextOf(CellOf(row, cImage))
    ELSE IF CellOf(row, cPrice) # Undefined THEN StringOf(CellOf(row, cPrice))
    ELSE IF CellOf(row, cDescription) # Undefined THEN StringOf(CellOf(row, cDescription))
    ELSE <<>>

\* C19: folding a configuration row whose name contains "line" sets lineOaId
\* from the image field when not empty and otherwise from the price or
\* description field, a line.me link reduced to the text after its final '/'
\* up to the first '?'.
C19_LineIdFromRow ==
    [][ (FoldsRow /\ MatchesKey(lastRow', "lineOaId") /\ LineText(lastRow') # <<>>)
            => config'.lineOaId = Str(ReducedLine(LineText(lastRow'))) ]_vars

\* C19, as the code has it: the same for a row whose name contains "line" and
\* none of "logo", "qr", "payment".
C19_LineIdFromLineRow ==
    [][ (FoldsRow /\ SelectsKey(lastRow', "lineOaId") /\ LineText(lastRow') # <<>>)
            => config'.lineOaId = Str(ReducedLine(LineText(lastRow'))) ]_vars

\* C19 witness: the row {Setting, Line, Price: https://line.me/R/ti/p/@seoulgood} was folded
C19_Witness ==
    /\ lastRow # NoRow
    /\ RowName(lastRow) = <<"L","i","n","e">>
    /\ CellOf(lastRow, cPrice) = Str(<<"h","t","t","p","s",":","/","/","l","i","n","e",".","m","e","/","R","/","t","i","/","p","/","@","s","e","o","u","l","g","o","o","d">>)
    /\ config.lineOaId = Str(<<"@","s","e","o","u","l","g","o","o","d">>)

-----------------------------------------------------------------------------
(* Claims about the spicy flag, checked under SpecSpicy *)

\* the markers: Spicy, and the Thai words phrik, tom yam and phet
SpicyMarkers == { <<"S","p","i","c","y">>, <<"u0E1E","u0E23","u0E34","u0E01">>, <<"u0E15","u0E49","u0E21","u0E22","u0E33">>, <<"u0E40","u0E1C","u0E47","u0E14">> }

\* the name or the description of the item contains a marker
HasSpicyMarker(item) ==
    \E m \in SpicyMarkers :
        \/ Includes(item.name, m)
        \/ (item.description # Undefined /\ Includes(item.description.s, m))

\* C20: an item has isSpicy true exactly when its name or its description
\* contains one of the markers Spicy, phrik, tom yam or phet; so an item whose
\* description contains phet and whose name holds no marker is spicy.
C20_SpicyIffMarker ==
    \A n \in 1..Len(groupedItems) : groupedItems[n].isSpicy <=> HasSpicyMarker(groupedItems[n])

-----------------------------------------------------------------------------
(* Claims about processImageUrl, checked under SpecImageUrl *)

\* the identifier a path of ImgPaths carries: a non-empty /d/<id>/ segment or a
\* non-empty id=<id> parameter, <<>> if it carries none
ImgIdOfPath(path) ==
    CASE path = <<"/","f","i","l","e","/","d","/","I","D","/","v","i","e","w">> -> <<"I","D">>
      [] path = <<"/","o","p","e","n","?","i","d","=","I","D">> -> <<"I","D">>
      [] path = <<"/","o","p","e","n","?","i","d","=","I","D","&","x","=","1">> -> <<"I","D">>
      [] path = <<"/","f","i","l","e","/","d","/","/","v","i","e","w","?","i","d","=","Q">> -> <<"Q">>
      [] OTHER -> <<>>

ImgDriveHost == <<"h","t","t","p","s",":","/","/","d","r","i","v","e",".","g","o","o","g","l","e",".","c","o","m">>

\* C21: processImageUrl rewrites only when an identifier is really extracted: a drive
\* URL with a non-empty /d/<id>/ or id=<id> identifier becomes the direct-view URL
\* for that identifier, and every other input is returned trimmed and otherwise
\* unchanged.
C21_RewriteOnlyWithId ==
    imgPc = "returned" =>
        /\ imgUrl = <<>> => imgResult = <<>>
        /\ \A pre \in ImgPads, host \in ImgHosts, path \in ImgPaths, suf \in ImgPads :
              imgUrl = pre \o host \o path \o suf =>
                  imgResult = IF host = ImgDriveHost /\ ImgIdOfPath(path) # <<>>
                              THEN DriveViewPrefix \o ImgIdOfPath(path)
                              ELSE Trim(imgUrl)

-----------------------------------------------------------------------------
(* Claims about the synonym columns, checked under SpecGetValue *)

\* the columns of the row the call ran on whose header is h
GvColumnsNamed(h) == {i \in 1..Len(gvRow) : gvRow[i].k = h}

\* the call returned the cell of a column whose header is h
GvReadFrom(h) == \E i \in GvColumnsNamed(h) : gvResult = gvRow[i].v

\* C26: no semantic field resolves to a column that is a documented synonym of a
\* different field: the base price is never read from a price_modifier or add_price
\* column, the item name never from a group_name column, and the category never
\* from an option_group column, also when the field's own cell is blank in the row.
C26_NoForeignSynonym ==
    gvPc = "returned" =>
        /\ gvField = "price" => ~GvReadFrom(<<"p","r","i","c","e","_","m","o","d","i","f","i","e","r">>) /\ ~GvReadFrom(<<"a","d","d","_","p","r","i","c","e">>)
        /\ gvField = "name" => ~GvReadFrom(<<"g","r","o","u","p","_","n","a","m","e">>)
        /\ gvField = "category" => ~GvReadFrom(<<"o","p","t","i","o","n","_","g","r","o","u","p">>)

-----------------------------------------------------------------------------
(* Claims about the defaults of an item, checked under SpecDefaults *)

\* the Category cell of the row marks it as a settings row
RowIsSetting(row) ==
    LET c == ToLowerCase(TextOf(CellOf(row, cCategory)))
    IN  \E i \in 1..Len(ConfigKeywords) : Includes(c, ConfigKeywords[i])

\* the Price cell of the row holds a number, or a string of digits
RowPriceIsNumeric(row) ==
    LET c == CellOf(row, cPrice)
    IN  c.t = "n" \/ (c.t = "s" /\ Trim(c.s) # <<>> /\ \A i \in 1..Len(Trim(c.s)) : IsDigit(Trim(c.s)[i]))

\* a named row outside the settings whose price is absent or not numeric, or whose
\* image is absent
RowNeedsDefault(row) ==
    /\ RowName(row) # <<>>
    /\ ~RowIsSetting(row)
    /\ (~RowPriceIsNumeric(row) \/ CellOf(row, cImage) = Undefined)

\* the price and the image the item of such a row is to get
DefaultedPrice(row) == IF RowPriceIsNumeric(row) THEN NumberOrZero(CellOf(row, cPrice)) ELSE 0
DefaultedImage(row) ==
    IF CellOf(row, cImage) = Undefined
    THEN PlaceholderPrefix \o SelectSeq(RowName(row), LAMBDA c : c # " ") \o PlaceholderSuffix
    ELSE ImageOf(row)

\* C22: a named, non-configuration row with an absent or non-numeric price or an
\* absent image still creates its item, with price 0 and with the placeholder image
\* keyed by the name with white space removed, and it changes nothing else: the
\* items created by the other rows and the config stay as they were.
C22_DefaultsCreateItem ==
    [][ (FoldsRow /\ RowNeedsDefault(lastRow')
            /\ \A i \in 1..Len(groupedItems) : groupedItems[i].name # RowName(lastRow')) =>
          /\ config' = config
          /\ Len(groupedItems') = Len(groupedItems) + 1
          /\ SubSeq(groupedItems', 1, Len(groupedItems)) = groupedItems
          /\ groupedItems'[Len(groupedItems')].name = RowName(lastRow')
          /\ groupedItems'[Len(groupedItems')].price = DefaultedPrice(lastRow')
          /\ groupedItems'[Len(groupedItems')].image = DefaultedImage(lastRow') ]_vars

-----------------------------------------------------------------------------
(* Claims about the settings shown, checked under SpecDisplay *)

\* a value is stored under the key: not empty, 'null' or 'undefined'
IsStored(item) ==
    item.t = "s" /\ item.s # <<>> /\ item.s # <<"n","u","l","l">> /\ item.s # <<"u","n","d","e","f","i","n","e","d">>

\* the sheet's value of a config key once the menu is loaded, <<>> before
SheetSetting(key) ==
    IF loading \/ result.config[key] = Undefined THEN <<>> ELSE result.config[key].s

\* C23: each displayed setting follows the priority local override, then sheet
\* config, then default: the logo and the QR code shown equal the stored local
\* value when one is stored (not empty, 'null' or 'undefined'), else the non-empty
\* sheet value, else the built-in default; the LINE id equals the cleaned local
\* value, else the cleaned sheet value, else empty.
C23_SettingPriority ==
    /\ finalLogoUrl = IF IsStored(storage.app_logo) THEN storage.app_logo.s
                      ELSE IF SheetSetting("logoUrl") # <<>> THEN SheetSetting("logoUrl")
                      ELSE DEFAULT_LOGO
    /\ finalQrUrl = IF IsStored(storage.app_qr) THEN storage.app_qr.s
                    ELSE IF SheetSetting("qrCodeUrl") # <<>> THEN SheetSetting("qrCodeUrl")
                    ELSE DEFAULT_QR
    /\ finalLineId = IF IsStored(storage.app_line_id) THEN ReducedLine(storage.app_line_id.s)
                     ELSE IF SheetSetting("lineOaId") # <<>> THEN ReducedLine(SheetSetting("lineOaId"))
                     ELSE <<>>

\* a loaded App with 'null' stored for the logo and nothing for the QR code, both
\* shown from the sheet, and the LINE id from the stored link
C23_Witness ==
    /\ ~loading
    /\ storage.app_logo = Str(<<"n","u","l","l">>)
    /\ storage.app_line_id = Str(<<"h","t","t","p","s",":","/","/","l","i","n","e",".","m","e","/","R","/","t","i","/","p","/","@","l","o","c","?","x","=","1">>)
    /\ storage.app_qr = Undefined
    /\ result.config.logoUrl = Str(<<"h","t","t","p","s",":","/","/","d","r","i","v","e",".","g","o","o","g","l","e",".","c","o","m","/","u","c","?","e","x","p","o","r","t","=","v","i","e","w","&","i","d","=","L","1">>)
    /\ finalLogoUrl = <<"h","t","t","p","s",":","/","/","d","r","i","v","e",".","g","o","o","g","l","e",".","c","o","m","/","u","c","?","e","x","p","o","r","t","=","v","i","e","w","&","i","d","=","L","1">>
    /\ result.config.qrCodeUrl = Str(<<"h","t","t","p",":","/","/","x","/","q",".","p","n","g">>)
    /\ finalQrUrl = <<"h","t","t","p",":","/","/","x","/","q",".","p","n","g">>
    /\ finalLineId = <<"@","l","o","c">>

-----------------------------------------------------------------------------
(* Claims about the item modal and the cart, checked under SpecCart *)

\* the item the fetch resolved to that carries the id
LoadedItem(id) == result.items[CHOOSE n \in 1..Len(result.items) : result.items[n].id = id]

\* the choices of a group that the entries select
SelectedOf(group, entries) ==
    {j \in 1..Len(group.choices) :
        \E e \in 1..Len(entries) : entries[e].name = group.name /\ entries[e].value = group.choices[j].name}

RECURSIVE ExtraOver(_, _)
\* the modifiers of the selected choices, summed over the groups
ExtraOver(groups, entries) ==
    IF groups = <<>> THEN 0
    ELSE (IF SelectedOf(Head(groups), entries) = {} THEN 0
          ELSE Head(groups).choices[MinOf(SelectedOf(Head(groups), entries))].priceModifier)
         + ExtraOver(Tail(groups), entries)

\* C24: after any sequence of cart and item-modal actions (open item, change
\* option, add to cart, change quantity, remove) every loaded menu item still has
\* the price, options and choices it had when the menu was loaded; a cart line is
\* an object of its own that carries its own price, the item's price plus the
\* modifiers of the choices selected for the line.
C24_MenuUntouched ==
    /\ ~loading => menu = result.items
    /\ \A i \in 1..Len(cart) :
          /\ cart[i].ref = 0
          /\ cart[i].price = LoadedItem(cart[i].id).price
                                + ExtraOver(LoadedItem(cart[i].id).options, cart[i].selectedOptions)

\* the cart holds Tea with the choice y, twice, at 45 a piece, and the menu still
\* lists Tea at 40 with its two choices
C24_Witness ==
    /\ Len(cart) = 1
    /\ cart[1].name = <<"T","e","a">>
    /\ cart[1].price = 45
    /\ cart[1].quantity = 2
    /\ menu[1].name = <<"T","e","a">>
    /\ menu[1].price = 40
    /\ Len(menu[1].options[1].choices) = 2

\* C27: in every reachable state every cart line has quantity at least 1: the item
\* modal quantity never drops below 1, updateQuantity leaves a line unchanged when
\* the new quantity would be 0 or less, and the minus control on a line of
\* quantity 1 removes the line.
C27_QuantityAtLeastOne ==
    /\ [](/\ tempQuantity >= 1
          /\ \A i \in 1..Len(cart) :
                /\ cart[i].quantity >= 1
                /\ \A delta \in {-2, -1} :
                      cart[i].quantity + delta <= 0 => updateQuantity(cart, i, delta) = cart)
    /\ [][ \A i \in 1..Len(cart) :
              (MinusControl(i) /\ cart[i].quantity = 1) =>
                  /\ Len(cart') = Len(cart) - 1
                  /\ \A j \in 1..Len(cart') : cart'[j] = IF j < i THEN cart[j] ELSE cart[j + 1] ]_vars

\* the cart is open on two lines, the first of quantity 1 and the second of
\* quantity 2, and the modal quantity was last at 2
C27_Witness ==
    /\ isCartOpen
    /\ Len(cart) = 2
    /\ cart[1].quantity = 1
    /\ cart[2].quantity = 2
    /\ tempQuantity = 2

\* the (group, choice) pairs of a selectedOptions object
OptionPairs(obj) == { <<obj[e].name, obj[e].value>> : e \in 1..Len(obj) }

\* the lines of the cart that match the modal on item id, note and selected options
MatchingLines ==
    {i \in 1..Len(cart) :
        /\ cart[i].id = menu[selectedItem].id
        /\ cart[i].note = tempNote
        /\ OptionPairs(cart[i].selectedOptions) = OptionPairs(tempSelectedOptions)}

\* the step adds the modal's item to the cart
AddsToCart == selectedItem # 0 /\ cart' # cart

\* C28: in every reachable state no two cart lines share the same item id, note and
\* selected options: adding an item that matches an existing line on all three
\* raises that line's quantity by the chosen amount and leaves the number of lines
\* unchanged, and any other add appends exactly one new line.
C28_LinesUnique ==
    /\ [](\A i, j \in 1..Len(cart) :
             i # j => ~(/\ cart[i].id = cart[j].id
                        /\ cart[i].note = cart[j].note
                        /\ OptionPairs(cart[i].selectedOptions) = OptionPairs(cart[j].selectedOptions)))
    /\ [][ AddsToCart =>
             IF MatchingLines # {}
             THEN /\ Len(cart') = Len(cart)
                  /\ \A i \in 1..Len(cart) :
                        IF i \in MatchingLines
                        THEN /\ cart'[i].quantity = cart[i].quantity + tempQuantity
                             /\ cart'[i].id = cart[i].id
                             /\ cart'[i].note = cart[i].note
                             /\ cart'[i].selectedOptions = cart[i].selectedOptions
                        ELSE cart'[i] = cart[i]
             ELSE /\ Len(cart') = Len(cart) + 1
                  /\ SubSeq(cart', 1, Len(cart)) = cart
                  /\ cart'[Len(cart')].id = menu[selectedItem].id
                  /\ cart'[Len(cart')].note = tempNote
                  /\ OptionPairs(cart'[Len(cart')].selectedOptions) = OptionPairs(tempSelectedOptions)
                  /\ cart'[Len(cart')].quantity = tempQuantity ]_vars

\* two lines of Tea that differ in the note only, the first added to twice
C28_Witness ==
    /\ Len(cart) = 2
    /\ cart[1].id = cart[2].id
    /\ cart[1].selectedOptions = cart[2].selectedOptions
    /\ cart[1].note = ""
    /\ cart[2].note = "no ice"
    /\ cart[1].quantity = 2
    /\ tempQuantity = 1

-----------------------------------------------------------------------------
(* C29 *)

\* name and phone filled in, something in the cart, a slip attached
CheckoutReady ==
    customerName # "" /\ customerPhone # "" /\ Len(cart) > 0 /\ slipPreview # ""

\* this step calls saveOrderToSheet
SaveIssued == Len(orders') > Len(orders)

\* this step sets window.location.href to the LINE url
HandOffIssued ==
    \E n \in 1..Len(orders) : orders[n].redirect = "none" /\ orders'[n].redirect # "none"

\* C29: the order is sent to the order log and the LINE hand-off is issued only
\* in states where name and phone are non-empty, the cart is non-empty and a
\* slip is attached; sendToLine opens the confirmation step only in such a
\* state, and in any other state it changes nothing of the App's state.
C29_CheckoutOnlyWhenReady ==
    [][ /\ SaveIssued => CheckoutReady
        /\ HandOffIssued => CheckoutReady
        /\ (~showConfirmModal /\ showConfirmModal') => CheckoutReady
        /\ (SendToLine /\ ~CheckoutReady) =>
               UNCHANGED <<settingsVars, loadVars, modalVars, cartVars, formVars,
                           showConfirmModal, isSavingOrder, currentOrderId, orders>>
      ]_vars

-----------------------------------------------------------------------------
(* C30 *)

\* the calls of saveOrderToSheet that have not settled
InFlight == {n \in 1..Len(orders) : orders[n].outcome = "pending"}

\* C30: the LINE redirect of handleOpenLine is issued only after the save call has
\* settled; it carries the returned order number when the save succeeded with
\* one and "(Offline)" when the save returned otherwise; there is no redirect
\* when the save throws; at most one save is in flight at a time, and
\* isSavingOrder always returns to false.
C30_RedirectAfterSettle ==
    /\ [](/\ \A n \in 1..Len(orders) :
                /\ orders[n].outcome \in {"pending", "threw"} => orders[n].redirect = "none"
                /\ orders[n].outcome = "saved" => orders[n].redirect = orders[n].orderNo
                /\ orders[n].outcome \in {"unnumbered", "error"} =>
                       orders[n].redirect = "(Offline)"
          /\ Cardinality(InFlight) <= 1
          /\ isSavingOrder <=> InFlight # {})
    /\ (isSavingOrder ~> ~isSavingOrder)

\* a save that threw and left no redirect, then a save that returned SG-0002,
\* which the redirect carries, and a save that is over
C30_Witness ==
    /\ Len(orders) = 2
    /\ orders[1] = [outcome |-> "threw", orderNo |-> "", redirect |-> "none"]
    /\ orders[2] = [outcome |-> "saved", orderNo |-> "SG-0002", redirect |-> "SG-0002"]
    /\ currentOrderId = "SG-0002"
    /\ ~isSavingOrder

-----------------------------------------------------------------------------
(* C25 *)

\* C25: whatever the outcome of the menu fetch, the App eventually leaves the
\* loading state and never enters it again, and when the loaded item list is
\* empty the render shows the empty-menu panel.
C25_LeavesLoading ==
    /\ <>[](~loading)
    /\ [][~loading => ~loading']_vars
    /\ [](pc = "done" => (loading \/ menu = result.items))
    /\ []((~loading /\ Len(menu) = 0) => View = "empty")

\* the fetch failed on the network, the App has loaded the empty list and shows
\* the empty-menu panel
C25_Witness ==
    /\ thrown = "network"
    /\ ~loading
    /\ Len(menu) = 0
    /\ View = "empty"

====
